---- MODULE Spec2Model ----
(***************************************************************************)
(* Span resolution, span analysis and mention coding of snobot.            *)
(*                                                                         *)
(* Several state machines share this module, one specification each:      *)
(*   SpecIou      SpanInfo.iou_with applied to pairs of spans              *)
(*   SpecResolve  SNOMEDEvaluator._resolve_overlapping_spans               *)
(*   SpecNote     SpanAnalyzer._analyze_note_spans                         *)
(*   SpecCoder    extract_and_code_mentions / code_mention with the        *)
(*                ExtractionLogger                                         *)
(*   SpecOccur    SNOMEDEvaluator._find_all_mention_occurrences            *)
(*   SpecEntities SNOMEDEvaluator.extract_entities                         *)
(*   SpecBatch    SNOMEDEvaluator.process_notes                            *)
(*   SpecContext  get_concept_ids_context / get_hits_context               *)
(*   SpecMain     main() of snomed_eval.py                                 *)
(*   SpecAnalyze  SpanAnalyzer.analyze_spans                               *)
(*   SpecEvaluate SNOMEDEvaluator.evaluate_submission                      *)
(*   SpecStandard the 'Maps to' lookups of code_mention and of             *)
(*                get_concept_ids_context                                  *)
(* A specification leaves the variables of the other machines at their     *)
(* idle values.                                                            *)
(***************************************************************************)
EXTENDS Integers, Sequences, FiniteSets, TLC

VARIABLES
    \* SpecIou
    spanA, spanB, iouAB, iouBA, iouAA, iouPc,
    \* SpecResolve
    entities, non_overlapping, resPc,
    \* SpecNote
    agent_spans, gold_spans, iou_threshold, notePc, agentIdx,
    matched_agent_indices, matched_gold_indices, comparisons, stats,
    \* SpecCoder
    status_widget, maps_to, concept_table, pc, mentions, pending, found_mention,
    tool_calls, run_result, standardized, coded_concepts, logger,
    code_mention_calls, tool_invocations,
    \* SpecOccur
    occ_text, mention_str, occurrences, occPc,
    \* SpecEntities
    ent_text, reports_dir, vocabulary, ent_concepts, failed_lookups,
    competition_entities, emitted, report_saved, entPc,
    \* SpecBatch
    notes_df, batch_idx, outcomes, results, batchPc,
    \* SpecContext
    ctx_caller, ctx_concept_ids, ctx_maps_to, ctx_is_a, collection,
    collection_again, ctxPc,
    \* SpecMain
    main_pc, notes_columns, annotation_columns, annotation_orphan, evaluate_flag,
    main_notes, main_idx, extractions,
    \* SpecAnalyze
    an_agent_spans, an_gold_spans, an_threshold, pending_notes, an_comparisons,
    an_stats, by_note_id, by_concept_id, anPc,
    \* SpecEvaluate
    submission_df, ground_truth_df, metrics, evalPc,
    \* SpecStandard
    std_maps_to, std_concept_id, std_picked, std_final

iouVars == <<spanA, spanB, iouAB, iouBA, iouAA, iouPc>>
resVars == <<entities, non_overlapping, resPc>>
noteVars == <<agent_spans, gold_spans, iou_threshold, notePc, agentIdx,
              matched_agent_indices, matched_gold_indices, comparisons, stats>>
coderVars == <<status_widget, maps_to, concept_table, pc, mentions, pending,
               found_mention, tool_calls, run_result, standardized, coded_concepts,
               logger, code_mention_calls, tool_invocations>>
occVars == <<occ_text, mention_str, occurrences, occPc>>
entVars == <<ent_text, reports_dir, vocabulary, ent_concepts, failed_lookups,
             competition_entities, emitted, report_saved, entPc>>
batchVars == <<notes_df, batch_idx, outcomes, results, batchPc>>
ctxVars == <<ctx_caller, ctx_concept_ids, ctx_maps_to, ctx_is_a, collection,
             collection_again, ctxPc>>
mainVars == <<main_pc, notes_columns, annotation_columns, annotation_orphan,
              evaluate_flag, main_notes, main_idx, extractions>>
analyzeVars == <<an_agent_spans, an_gold_spans, an_threshold, pending_notes,
                 an_comparisons, an_stats, by_note_id, by_concept_id, anPc>>
evalVars == <<submission_df, ground_truth_df, metrics, evalPc>>
stdVars == <<std_maps_to, std_concept_id, std_picked, std_final>>
vars == <<iouVars, resVars, noteVars, coderVars, occVars, entVars,
         batchVars, ctxVars, mainVars, analyzeVars, evalVars, stdVars>>

\* Python's None.
None == "None"

(***************************************************************************)
(* Bounds of the model.                                                    *)
(***************************************************************************)
\* Largest character offset of a span handed to iou_with or to the resolver.
MaxPos == 4
\* Longest list of candidate spans handed to _resolve_overlapping_spans.
MaxEntities == 2

\* Largest character offset of a span handed to _analyze_note_spans.
MaxNotePos == 2
\* Longest list of predicted spans and longest list of gold spans of a note.
MaxAgentSpans == 2
MaxGoldSpans == 2

\* Longest list of mentions the mention extractor returns for a text.
MaxMentions == 2
\* Most tool invocations of the reasoning steps of one run.
MaxToolCalls == 2
\* Concept ids 1..MaxConceptId are rows of the Concept Store's concept table.
MaxConceptId == 2

\* Longest text and longest mention string given to
\* _find_all_mention_occurrences.
MaxTextLen == 4
MaxMentionLen == 3

\* Longest text given to extract_entities, longest mention string of a coded
\* concept, and most coded concepts of one text.
MaxEntTextLen == 2
MaxEntMentionLen == 2
MaxCodedConcepts == 2

\* Most notes of a batch, and most entities extract_entities builds for a note.
MaxNotes == 2
MaxNoteEntities == 2

\* Most concept ids given to get_concept_ids_context.
MaxCtxIds == 2

\* Concept codes carried by spans.
ConceptCodes == {"A", "B"}

Min(a, b) == IF a <= b THEN a ELSE b
Max(a, b) == IF a >= b THEN a ELSE b

\* All sequences over S of length at most n.
SeqsUpTo(S, n) == UNION {[1..k -> S] : k \in 0..n}

(***************************************************************************)
(* Floats that are quotients of two small integers are kept as <<n, d>>    *)
(* with d > 0 and compared by cross multiplication: for operands of this   *)
(* size float division rounds distinct quotients to distinct floats and    *)
(* equal quotients to the same float.                                      *)
(***************************************************************************)
Zero == <<0, 1>>
One == <<1, 1>>
RatEq(p, q) == p[1] * q[2] = q[1] * p[2]
RatLt(p, q) == p[1] * q[2] < q[1] * p[2]
RatLe(p, q) == p[1] * q[2] <= q[1] * p[2]

(***************************************************************************)
(* SpanInfo (span_analyzer.py)                                             *)
(***************************************************************************)
\* SpanInfo.length
length(self) == self.end - self.start

\* SpanInfo.overlaps_with
overlaps_with(self, other) ==
    ~(self.end <= other.start \/ other.end <= self.start)

\* A slip in the intersection: the last shared character is not counted.
overlap_length_short(self, other) ==
    IF ~overlaps_with(self, other)
    THEN 0
    ELSE Min(self.end, other.end) - Max(self.start, other.start) - 1

\* SpanInfo.overlap_length
overlap_length(self, other) ==
    IF ~overlaps_with(self, other)
    THEN 0
    ELSE Min(self.end, other.end) - Max(self.start, other.start)

\* A slip in the union: the intersection is not subtracted.
iou_with_noSubtract(self, other) ==
    LET intersection == overlap_length(self, other)
        union == length(self) + length(other)
    IN  IF intersection = 0
        THEN Zero
        ELSE IF union > 0 THEN <<intersection, union>> ELSE Zero

\* SpanInfo.iou_with
iou_with(self, other) ==
    LET intersection == overlap_length(self, other)
        union == length(self) + length(other) - intersection
    IN  IF intersection = 0
        THEN Zero
        ELSE IF union > 0 THEN <<intersection, union>> ELSE Zero

(***************************************************************************)
(* SpecIou: iou_with on every pair of spans with start <= end              *)
(***************************************************************************)
\* Character ranges [start, end) with 0 <= start <= end <= MaxPos.
Ranges == {r \in [start : 0..MaxPos, end : 0..MaxPos] : r.start <= r.end}

IouIdle ==
    /\ spanA = None /\ spanB = None
    /\ iouAB = None /\ iouBA = None /\ iouAA = None
    /\ iouPc = "idle"

IouInit ==
    /\ spanA \in Ranges
    /\ spanB \in Ranges
    /\ iouAB = None /\ iouBA = None /\ iouAA = None
    /\ iouPc = "start"

\* a.iou_with(b), b.iou_with(a) and a.iou_with(a) for the drawn spans.
ComputeIou ==
    /\ iouPc = "start"
    /\ iouAB' = iou_with(spanA, spanB)
    /\ iouBA' = iou_with(spanB, spanA)
    /\ iouAA' = iou_with(spanA, spanA)
    /\ iouPc' = "done"
    /\ UNCHANGED <<spanA, spanB>>

(***************************************************************************)
(* SpecResolve: SNOMEDEvaluator._resolve_overlapping_spans                 *)
(***************************************************************************)
\* Candidate entities as extract_entities builds them: start, end and the
\* SNOMED code ('text' and 'omop_concept_id' play no part in the resolution).
Entities == {e \in [start : 0..MaxPos, end : 0..MaxPos, concept_id : ConceptCodes] :
                e.start <= e.end}

\* A slip in the comparison: spans sharing one character pass as disjoint.
spans_overlap_offByOne(span1, span2) ==
    ~(span1.end <= span2.start + 1 \/ span2.end <= span1.start + 1)

\* SNOMEDEvaluator._spans_overlap
spans_overlap(span1, span2) ==
    ~(span1.end <= span2.start \/ span2.end <= span1.start)

\* A slip in the sort key: among equal starts the shortest span comes first.
KeyLessShortestFirst(x, y) ==
    \/ x.start < y.start
    \/ /\ x.start = y.start
       /\ (x.end - x.start) < (y.end - y.start)

\* The sort key of line 238, (start, -(end - start)), compared as tuples.
KeyLess(x, y) ==
    \/ x.start < y.start
    \/ /\ x.start = y.start
       /\ -(x.end - x.start) < -(y.end - y.start)

\* Insert x behind every element whose key is not greater: equal keys keep
\* their input order, as Python's stable sort does.
RECURSIVE InsertStable(_, _)
InsertStable(x, s) ==
    IF s = <<>> THEN <<x>>
    ELSE IF KeyLess(x, Head(s)) THEN <<x>> \o s
    ELSE <<Head(s)>> \o InsertStable(x, Tail(s))

\* sorted(entities, key=...) of line 238, elements inserted in input order.
RECURSIVE sorted_entities(_)
sorted_entities(s) ==
    IF s = <<>> THEN <<>>
    ELSE InsertStable(s[Len(s)], sorted_entities(SubSeq(s, 1, Len(s) - 1)))

\* The loop of lines 241-250 over the sorted entities from index i on.
RECURSIVE KeepLoop(_, _, _)
KeepLoop(sorted, i, selected) ==
    IF i > Len(sorted) THEN selected
    ELSE LET entity == sorted[i]
             overlaps == \E k \in 1..Len(selected) : spans_overlap(entity, selected[k])
         IN  KeepLoop(sorted, i + 1,
                      IF overlaps THEN selected ELSE Append(selected, entity))

\* A slip in the loop: only the first span of the sorted list is kept.
resolve_overlapping_spans_firstOnly(ents) ==
    IF ents = <<>> THEN ents
    ELSE <<sorted_entities(ents)[1]>>

\* A slip in line 238: the candidates are taken in input order, unsorted.
resolve_overlapping_spans_unsorted(ents) ==
    IF ents = <<>> THEN ents
    ELSE KeepLoop(ents, 1, <<>>)

\* SNOMEDEvaluator._resolve_overlapping_spans
resolve_overlapping_spans(ents) ==
    IF ents = <<>> THEN ents
    ELSE KeepLoop(sorted_entities(ents), 1, <<>>)

ResIdle ==
    /\ entities = <<>> /\ non_overlapping = <<>> /\ resPc = "idle"

ResInit ==
    /\ entities \in SeqsUpTo(Entities, MaxEntities)
    /\ non_overlapping = <<>>
    /\ resPc = "start"

\* competition_entities = self._resolve_overlapping_spans(competition_entities)
Resolve ==
    /\ resPc = "start"
    /\ non_overlapping' = resolve_overlapping_spans(entities)
    /\ resPc' = "done"
    /\ UNCHANGED entities

(***************************************************************************)
(* SpecNote: SpanAnalyzer._analyze_note_spans                              *)
(*                                                                         *)
(* A span is its start, end and concept_id.  A SpanComparison refers to    *)
(* the SpanInfo objects of the two input lists: agent_span and gold_span   *)
(* hold the 1-based index of the object in its list, or NoSpan for None.     *)
(***************************************************************************)
\* agent_span / gold_span of a SpanComparison that holds no span (None).
NoSpan == 0

NoteSpans == {sp \in [start : 0..MaxNotePos, end : 0..MaxNotePos,
                      concept_id : ConceptCodes] : sp.start <= sp.end}

\* Values of iou_threshold: 0.0, 0.5 (the default), 1.0 and 1.5.
Thresholds == {<<0, 1>>, <<1, 2>>, <<1, 1>>, <<3, 2>>}

\* round(x, 4) of SpanComparison.to_dict: the nearest multiple of 1/10000,
\* a tie going to the even one (no quotient with a divisor below 32 is a tie).
Round4(x) ==
    LET q == (10000 * x[1]) \div x[2]
        r == (10000 * x[1]) % x[2]
        up == \/ 2 * r > x[2]
              \/ 2 * r = x[2] /\ q % 2 = 1
    IN  <<IF up THEN q + 1 ELSE q, 10000>>

\* The loop of lines 287-295 from gold index j on; best_gold_idx 0 stands
\* for "no best_match yet" (best_match None, best_gold_idx -1).
RECURSIVE BestMatchLoop(_, _, _, _, _, _)
BestMatchLoop(agent_span, golds, matchedGold, threshold, j, best) ==
    IF j > Len(golds) THEN best
    ELSE IF j \in matchedGold
    THEN BestMatchLoop(agent_span, golds, matchedGold, threshold, j + 1, best)
    ELSE LET iou == iou_with(agent_span, golds[j])
         IN  IF RatLt(best.best_iou, iou) /\ RatLe(threshold, iou)
             THEN BestMatchLoop(agent_span, golds, matchedGold, threshold, j + 1,
                                [best_iou |-> iou, best_gold_idx |-> j])
             ELSE BestMatchLoop(agent_span, golds, matchedGold, threshold, j + 1, best)

\* A slip in the inner loop: gold spans already matched are not skipped.
FindBestMatchNoSkip(agent_span, golds, matchedGold, threshold) ==
    BestMatchLoop(agent_span, golds, {}, threshold, 1,
                  [best_iou |-> Zero, best_gold_idx |-> 0])

\* A slip in the inner loop: the first gold span that reaches the threshold
\* with some overlap is taken, not the best one.
FindBestMatchFirst(agent_span, golds, matchedGold, threshold) ==
    LET ok == {j \in 1..Len(golds) :
                 /\ j \notin matchedGold
                 /\ RatLt(Zero, iou_with(agent_span, golds[j]))
                 /\ RatLe(threshold, iou_with(agent_span, golds[j]))}
    IN  IF ok = {} THEN [best_iou |-> Zero, best_gold_idx |-> 0]
        ELSE LET j == CHOOSE x \in ok : \A y \in ok : x <= y
             IN  [best_iou |-> iou_with(agent_span, golds[j]), best_gold_idx |-> j]

\* Lines 283-295: best_match, best_iou and best_gold_idx for one agent span.
FindBestMatch(agent_span, golds, matchedGold, threshold) ==
    BestMatchLoop(agent_span, golds, matchedGold, threshold, 1,
                  [best_iou |-> Zero, best_gold_idx |-> 0])

\* A slip in the classification: the concept is not compared for an exact match.
ClassifyIgnoringConcept(agent_span, best_match) ==
    IF agent_span.start = best_match.start /\ agent_span.end = best_match.end
    THEN "exact_match"
    ELSE IF agent_span.concept_id # best_match.concept_id
    THEN "concept_mismatch"
    ELSE "partial_overlap"

\* Lines 303-313: the overlap type of a matched pair.
Classify(agent_span, best_match) ==
    IF /\ agent_span.start = best_match.start
       /\ agent_span.end = best_match.end
       /\ agent_span.concept_id = best_match.concept_id
    THEN "exact_match"
    ELSE IF agent_span.concept_id # best_match.concept_id
    THEN "concept_mismatch"
    ELSE "partial_overlap"

\* The counter of stats that lines 307, 310 and 313 increment for a type.
CounterOf(overlap_type) ==
    CASE overlap_type = "exact_match" -> "exact_matches"
      [] overlap_type = "concept_mismatch" -> "concept_mismatches"
      [] overlap_type = "partial_overlap" -> "partial_overlaps"

\* The comparisons lines 326-337 append for the agent spans from index k on.
RECURSIVE AgentOnly(_, _, _)
AgentOnly(agents, matchedAgent, k) ==
    IF k > Len(agents) THEN <<>>
    ELSE (IF k \in matchedAgent THEN <<>>
          ELSE <<[agent_span |-> k, gold_span |-> NoSpan, overlap_type |-> "no_overlap",
                  iou_score |-> Zero, overlap_length |-> 0]>>)
         \o AgentOnly(agents, matchedAgent, k + 1)

\* A slip in the last loop: the agent's matched set is consulted for gold spans.
GoldOnlyWrongSet(golds, matchedGold, k) ==
    LET RECURSIVE Loop(_)
        Loop(n) ==
            IF n > Len(golds) THEN <<>>
            ELSE (IF n \in matched_agent_indices THEN <<>>
                  ELSE <<[agent_span |-> NoSpan, gold_span |-> n,
                          overlap_type |-> "no_overlap",
                          iou_score |-> Zero, overlap_length |-> 0]>>)
                 \o Loop(n + 1)
    IN  Loop(k)

\* The comparisons lines 340-351 append for the gold spans from index k on.
RECURSIVE GoldOnly(_, _, _)
GoldOnly(golds, matchedGold, k) ==
    IF k > Len(golds) THEN <<>>
    ELSE (IF k \in matchedGold THEN <<>>
          ELSE <<[agent_span |-> NoSpan, gold_span |-> k, overlap_type |-> "no_overlap",
                  iou_score |-> Zero, overlap_length |-> 0]>>)
         \o GoldOnly(golds, matchedGold, k + 1)

\* comp.to_dict() of line 353: the score is rounded to four decimals.
ToDict(comp) == [comp EXCEPT !.iou_score = Round4(comp.iou_score)]

NoteIdle ==
    /\ agent_spans = <<>> /\ gold_spans = <<>> /\ iou_threshold = Zero
    /\ notePc = "idle" /\ agentIdx = 0
    /\ matched_agent_indices = {} /\ matched_gold_indices = {}
    /\ comparisons = <<>>
    /\ stats = [exact_matches |-> 0, partial_overlaps |-> 0, concept_mismatches |-> 0,
                agent_only_spans |-> 0, gold_only_spans |-> 0]

\* Lines 266-279.
NoteInit ==
    /\ agent_spans \in SeqsUpTo(NoteSpans, MaxAgentSpans)
    /\ gold_spans \in SeqsUpTo(NoteSpans, MaxGoldSpans)
    /\ iou_threshold \in Thresholds
    /\ notePc = "match"
    /\ agentIdx = 1
    /\ matched_agent_indices = {}
    /\ matched_gold_indices = {}
    /\ comparisons = <<>>
    /\ stats = [exact_matches |-> 0, partial_overlaps |-> 0, concept_mismatches |-> 0,
                agent_only_spans |-> 0, gold_only_spans |-> 0]

\* One pass of the loop of lines 282-323, for the agent span at agentIdx.
MatchAgentSpan ==
    /\ notePc = "match"
    /\ agentIdx <= Len(agent_spans)
    /\ LET agent_span == agent_spans[agentIdx]
           best == FindBestMatch(agent_span, gold_spans, matched_gold_indices,
                                 iou_threshold)
       IN  IF best.best_gold_idx # 0
           THEN LET best_match == gold_spans[best.best_gold_idx]
                    overlap_type == Classify(agent_span, best_match)
                IN  /\ matched_agent_indices' = matched_agent_indices \cup {agentIdx}
                    /\ matched_gold_indices' =
                           matched_gold_indices \cup {best.best_gold_idx}
                    /\ stats' = [stats EXCEPT ![CounterOf(overlap_type)] = @ + 1]
                    /\ comparisons' = Append(comparisons,
                           [agent_span |-> agentIdx,
                            gold_span |-> best.best_gold_idx,
                            overlap_type |-> overlap_type,
                            iou_score |-> best.best_iou,
                            overlap_length |-> overlap_length(agent_span, best_match)])
           ELSE UNCHANGED <<matched_agent_indices, matched_gold_indices, stats,
                            comparisons>>
    /\ agentIdx' = agentIdx + 1
    /\ UNCHANGED <<agent_spans, gold_spans, iou_threshold, notePc>>

\* The loop of lines 326-337, entered when the matching loop has ended.
UnmatchedAgentSpans ==
    /\ notePc = "match"
    /\ agentIdx > Len(agent_spans)
    /\ LET new == AgentOnly(agent_spans, matched_agent_indices, 1)
       IN  /\ comparisons' = comparisons \o new
           /\ stats' = [stats EXCEPT !.agent_only_spans = @ + Len(new)]
    /\ notePc' = "unmatched_gold"
    /\ UNCHANGED <<agent_spans, gold_spans, iou_threshold, agentIdx,
                   matched_agent_indices, matched_gold_indices>>

\* The loop of lines 340-351 and the conversion of line 353; the function
\* returns.
UnmatchedGoldSpans ==
    /\ notePc = "unmatched_gold"
    /\ LET new == GoldOnly(gold_spans, matched_gold_indices, 1)
           all == comparisons \o new
       IN  /\ comparisons' = [k \in 1..Len(all) |-> ToDict(all[k])]
           /\ stats' = [stats EXCEPT !.gold_only_spans = @ + Len(new)]
    /\ notePc' = "done"
    /\ UNCHANGED <<agent_spans, gold_spans, iou_threshold, agentIdx,
                   matched_agent_indices, matched_gold_indices>>

(***************************************************************************)
(* ExtractionLogger (extraction_log.py)                                    *)
(*                                                                         *)
(* The logger is a record: steps and mention_logs are the lists of its     *)
(* ExtractionProcessLog, current_mention_log is <<>> for None and          *)
(* <<log>> otherwise, final_result of a MentionCodingLog likewise.  A      *)
(* LogStep carries its step_type, the data the claims read, the number of  *)
(* its creation (the identity of the object) and the code_mention call     *)
(* that emitted it ("" for extract_and_code_mentions itself).              *)
(***************************************************************************)
\* ExtractionLogger.__init__
NewLogger ==
    [steps |-> <<>>, mention_logs |-> <<>>, final_results |-> <<>>,
     finalized |-> FALSE, current_mention_log |-> <<>>,
     step_start_times |-> {}, created |-> 0]

\* ExtractionLogger.start_step
start_step(L, step_id) ==
    [L EXCEPT !.step_start_times = @ \cup {step_id}]

\* A slip in log_step: the step always goes to the top-level log.
log_step_toMain(L, step_type, data, step_id, emitter) ==
    LET step == [step_type |-> step_type, data |-> data,
                 id |-> L.created + 1, emitter |-> emitter]
    IN  [L EXCEPT !.step_start_times = @ \ {step_id},
                  !.created = @ + 1,
                  !.steps = Append(@, step)]

\* A slip in log_step: the step is put in front of the mention's steps.
log_step_prepend(L, step_type, data, step_id, emitter) ==
    LET step == [step_type |-> step_type, data |-> data,
                 id |-> L.created + 1, emitter |-> emitter]
        timed == [L EXCEPT !.step_start_times = @ \ {step_id},
                           !.created = @ + 1]
    IN  IF L.current_mention_log # <<>>
        THEN [timed EXCEPT !.current_mention_log[1].steps = <<step>> \o @]
        ELSE [timed EXCEPT !.steps = Append(@, step)]

\* ExtractionLogger.log_step; step_id "" stands for step_id=None.
log_step(L, step_type, data, step_id, emitter) ==
    LET step == [step_type |-> step_type, data |-> data,
                 id |-> L.created + 1, emitter |-> emitter]
        timed == [L EXCEPT !.step_start_times = @ \ {step_id},
                           !.created = @ + 1]
    IN  IF L.current_mention_log # <<>>
        THEN [timed EXCEPT !.current_mention_log[1].steps = Append(@, step)]
        ELSE [timed EXCEPT !.steps = Append(@, step)]

\* ExtractionLogger.start_mention_coding
start_mention_coding(L, mention) ==
    [L EXCEPT !.current_mention_log =
        <<[mention |-> mention, steps |-> <<>>, final_result |-> <<>>]>>]

\* ExtractionLogger.finish_mention_coding
finish_mention_coding(L, final_result) ==
    IF L.current_mention_log # <<>>
    THEN [L EXCEPT !.mention_logs =
                       Append(@, [L.current_mention_log[1] EXCEPT
                                     !.final_result = <<final_result>>]),
                   !.current_mention_log = <<>>]
    ELSE L

\* ExtractionLogger.finalize
finalize(L, final_results) ==
    [L EXCEPT !.finalized = TRUE, !.final_results = final_results]

(***************************************************************************)
(* Concept ids.  A Python str is <<"str", cs>> with cs its characters, the *)
(* int n is <<"int", n>>.  str() of an int writes its decimal digits; an   *)
(* id interpolated into a SQL query is read by the database as the number  *)
(* its text writes, blanks around it skipped.                              *)
(***************************************************************************)
DigitChars == <<"0", "1", "2", "3", "4", "5", "6", "7", "8", "9">>
DigitValue(c) == CHOOSE v \in 0..9 : DigitChars[v + 1] = c

RECURSIVE Decimal(_)
Decimal(n) ==
    IF n < 10 THEN <<DigitChars[n + 1]>>
    ELSE Append(Decimal(n \div 10), DigitChars[(n % 10) + 1])

RECURSIVE ParseDecimal(_)
ParseDecimal(cs) ==
    IF cs = <<>> THEN 0
    ELSE IF cs[Len(cs)] = " " THEN ParseDecimal(SubSeq(cs, 1, Len(cs) - 1))
    ELSE ParseDecimal(SubSeq(cs, 1, Len(cs) - 1)) * 10 + DigitValue(cs[Len(cs)])

PyStr(cs) == <<"str", cs>>
PyInt(n) == <<"int", n>>
\* str(x)
ToStr(x) == IF x[1] = "int" THEN PyStr(Decimal(x[2])) ELSE x
\* The number the database reads from f"{x}".
SqlNumber(x) == IF x[1] = "int" THEN x[2] ELSE ParseDecimal(x[2])

ConceptIds == 1..MaxConceptId
\* The concept_id strings the reasoning step can return: the decimal text of
\* each stored id, of one id that the Concept Store does not hold, and the
\* text of the first id written after a blank.
ReasonedIds ==
    {PyStr(Decimal(n)) : n \in 1..(MaxConceptId + 1)}
    \cup {PyStr(<<" ">> \o Decimal(1))}
MentionStrs == {"a", "b"}

\* All orders of the elements of a finite set.
Orders(S) == {q \in [1..Cardinality(S) -> S] : \A x \in S : \E k \in DOMAIN q : q[k] = x}

\* A slip in line 39: the mentions are iterated without deduplication.
DistinctMentionsNoDedup(ms) == {ms}

\* set([...]) of line 39 and the order in which line 44 iterates over it: one
\* of the orders of the distinct strings.
DistinctMentions(ms) == Orders({ms[k] : k \in DOMAIN ms})

\* SELECT concept_id_2 ... WHERE concept_id_1 = {id} AND relationship_id =
\* 'Maps to' (line 208): the rows, in an order the database chooses.
MapsToRows(maps, id) ==
    LET targets == {r[2] : r \in {x \in maps : x[1] = SqlNumber(id)}}
    IN  {[k \in DOMAIN q |-> <<PyInt(q[k])>>] : q \in Orders(targets)}

\* The query of line 208 against the store of the run.
MapsToQuery(id) == MapsToRows(maps_to, id)

\* A slip in lines 224-226: a missing row is answered with the id itself.
ConceptQueryDefaultRow(id) ==
    <<<<PyInt(SqlNumber(id))>>>>

\* SELECT concept_id, ... FROM concept WHERE concept_id = {id} (line 224).
ConceptQuery(id) ==
    IF SqlNumber(id) \in concept_table
    THEN <<<<PyInt(SqlNumber(id))>>>>
    ELSE <<>>

\* A slip in lines 211-218: the selected id is kept although a mapping exists.
StandardizeKeepOriginal(query_result, original_concept_id) ==
    IF query_result # <<>>
    THEN [agent_picked_concept_id |-> original_concept_id, mapping_found |-> TRUE]
    ELSE [agent_picked_concept_id |-> original_concept_id, mapping_found |-> FALSE]

\* Lines 211-218.
Standardize(query_result, original_concept_id) ==
    IF query_result # <<>>
    THEN [agent_picked_concept_id |-> query_result[1][1], mapping_found |-> TRUE]
    ELSE [agent_picked_concept_id |-> original_concept_id, mapping_found |-> FALSE]

\* No data of a step is read by a claim.
NoData == <<>>

(***************************************************************************)
(* SpecCoder: extract_and_code_mentions and code_mention                   *)
(***************************************************************************)
CoderIdle ==
    /\ status_widget = None /\ maps_to = {} /\ concept_table = {}
    /\ pc = "idle" /\ mentions = <<>> /\ pending = <<>> /\ found_mention = ""
    /\ tool_calls = 0 /\ run_result = <<>> /\ standardized = <<>>
    /\ coded_concepts = <<>> /\ logger = NewLogger
    /\ code_mention_calls = <<>> /\ tool_invocations = <<>>

\* The caller's status widget (the evaluator passes None) and the Concept
\* Store, which is read-only during a run.
CoderInit ==
    /\ status_widget \in {"widget", None}
    /\ maps_to \in SUBSET (ConceptIds \X ConceptIds)
    /\ concept_table = ConceptIds
    /\ pc = "start" /\ mentions = <<>> /\ pending = <<>> /\ found_mention = ""
    /\ tool_calls = 0 /\ run_result = <<>> /\ standardized = <<>>
    /\ coded_concepts = <<>> /\ logger = NewLogger
    /\ code_mention_calls = <<>> /\ tool_invocations = <<>>

store == <<status_widget, maps_to, concept_table>>

\* Lines 22-41: the mention extractor returns ms; the identification and the
\* deduplication are logged.
IdentifyMentions ==
    /\ pc = "start"
    /\ status_widget # None
    /\ \E ms \in SeqsUpTo(MentionStrs, MaxMentions) :
           /\ mentions' = ms
           /\ \E order \in DistinctMentions(ms) : pending' = order
    /\ logger' = log_step(
                     log_step(start_step(NewLogger, "mention_id"),
                              "mention_identification", NoData, "mention_id", ""),
                     "deduplication", NoData, "", "")
    /\ pc' = "loop"
    /\ UNCHANGED <<store, found_mention, tool_calls, run_result, standardized,
                   coded_concepts, code_mention_calls, tool_invocations>>

\* Lines 22-33 raise: status_widget is None (line 32) or the mention
\* extractor fails (line 33); start_step of line 25 has run.
IdentifyMentionsRaises ==
    /\ pc = "start"
    /\ logger' = start_step(NewLogger, "mention_id")
    /\ pc' = "raised"
    /\ UNCHANGED <<store, mentions, pending, found_mention, tool_calls, run_result,
                   standardized, coded_concepts, code_mention_calls,
                   tool_invocations>>

\* Lines 44-46 and 148-197: code_mention is called for the next distinct
\* mention; the initial search returns and is logged, and the timer of the
\* reasoning step starts.
BeginCodeMention ==
    /\ pc = "loop"
    /\ pending # <<>>
    /\ found_mention' = Head(pending)
    /\ pending' = Tail(pending)
    /\ code_mention_calls' = Append(code_mention_calls, Head(pending))
    /\ logger' = start_step(
                     log_step(
                         start_step(start_mention_coding(logger, Head(pending)),
                                    "initial_vec_search"),
                         "initial_vector_search", NoData, "initial_vec_search",
                         Head(pending)),
                     "agent_reason")
    /\ pc' = "reason"
    /\ UNCHANGED <<store, mentions, tool_calls, run_result, standardized,
                   coded_concepts, tool_invocations>>

\* Lines 44-46 and 148-153: get_hits_context raises in the initial search.
BeginCodeMentionRaises ==
    /\ pc = "loop"
    /\ pending # <<>>
    /\ found_mention' = Head(pending)
    /\ pending' = Tail(pending)
    /\ code_mention_calls' = Append(code_mention_calls, Head(pending))
    /\ logger' = start_step(start_mention_coding(logger, Head(pending)),
                            "initial_vec_search")
    /\ pc' = "raised"
    /\ UNCHANGED <<store, mentions, tool_calls, run_result, standardized,
                   coded_concepts, tool_invocations>>

\* Lines 162-176: the reasoning step invokes vector_search_alternative.
VectorSearchAlternative ==
    /\ pc = "reason"
    /\ tool_calls < MaxToolCalls
    /\ logger' = log_step(start_step(logger, "alt_vector_search"),
                          "alternative_vector_search", NoData, "alt_vector_search",
                          found_mention)
    /\ tool_calls' = tool_calls + 1
    /\ tool_invocations' = Append(tool_invocations,
           [mention |-> found_mention, tool |-> "alternative_vector_search"])
    /\ UNCHANGED <<store, pc, mentions, pending, found_mention, run_result,
                   standardized, coded_concepts, code_mention_calls>>

\* Lines 178-192: the reasoning step invokes get_concept_context.
GetConceptContext ==
    /\ pc = "reason"
    /\ tool_calls < MaxToolCalls
    /\ logger' = log_step(start_step(logger, "concept_context"),
                          "concept_context", NoData, "concept_context",
                          found_mention)
    /\ tool_calls' = tool_calls + 1
    /\ tool_invocations' = Append(tool_invocations,
           [mention |-> found_mention, tool |-> "concept_context"])
    /\ UNCHANGED <<store, pc, mentions, pending, found_mention, run_result,
                   standardized, coded_concepts, code_mention_calls>>

\* A tool raises in its search or lookup (lines 172, 188), after its
\* start_step; run_sync and code_mention raise with it.
ToolRaises ==
    /\ pc = "reason"
    /\ tool_calls < MaxToolCalls
    /\ \E t \in {"alt_vector_search", "concept_context"} :
           logger' = start_step(logger, t)
    /\ pc' = "raised"
    /\ UNCHANGED <<store, mentions, pending, found_mention, tool_calls, run_result,
                   standardized, coded_concepts, code_mention_calls,
                   tool_invocations>>

\* Lines 199-206: the reasoning step returns a concept id and the negation
\* flag; the step is logged and the timer of the mapping starts.
Reason ==
    /\ pc = "reason"
    /\ \E id \in ReasonedIds, negated \in BOOLEAN :
           /\ run_result' = <<[concept_id |-> id, negated |-> negated]>>
           /\ logger' = start_step(
                            log_step(logger, "agent_reasoning",
                                     <<id>>, "agent_reason", found_mention),
                            "mapping")
    /\ pc' = "standardize"
    /\ UNCHANGED <<store, mentions, pending, found_mention, tool_calls,
                   standardized, coded_concepts, code_mention_calls,
                   tool_invocations>>

\* Line 199 raises: the reasoning step fails.
ReasonRaises ==
    /\ pc = "reason"
    /\ pc' = "raised"
    /\ UNCHANGED <<store, mentions, pending, found_mention, tool_calls, run_result,
                   standardized, coded_concepts, logger, code_mention_calls,
                   tool_invocations>>

\* Lines 205-222: the 'Maps to' query, the choice of the final id, its log
\* step, and the timer of the final retrieval.
StandardizeStep ==
    /\ pc = "standardize"
    /\ LET original_concept_id == run_result[1].concept_id
       IN  \E query_result \in MapsToQuery(original_concept_id) :
               LET picked == Standardize(query_result, original_concept_id)
               IN  /\ standardized' = <<picked>>
                   /\ logger' = start_step(
                          log_step(logger, "concept_mapping",
                                   <<original_concept_id,
                                     picked.agent_picked_concept_id,
                                     picked.mapping_found>>,
                                   "mapping", found_mention),
                          "final_retrieval")
    /\ pc' = "finalize"
    /\ UNCHANGED <<store, mentions, pending, found_mention, tool_calls, run_result,
                   coded_concepts, code_mention_calls, tool_invocations>>

\* Line 209 raises: the Concept Store cannot be queried.
StandardizeRaises ==
    /\ pc = "standardize"
    /\ pc' = "raised"
    /\ UNCHANGED <<store, mentions, pending, found_mention, tool_calls, run_result,
                   standardized, coded_concepts, logger, code_mention_calls,
                   tool_invocations>>

\* Lines 224-243 and 47: the final retrieval, the FullCodedConcept, its log
\* step, finish_mention_coding, and the append to coded_concepts.
FinalizeStep ==
    /\ pc = "finalize"
    /\ LET agent_picked_concept_id == standardized[1].agent_picked_concept_id
           query_result == ConceptQuery(agent_picked_concept_id)
       IN  /\ query_result # <<>>
           /\ LET coded_concept ==
                      [mention_str |-> found_mention,
                       concept_id |-> ToStr(query_result[1][1]),
                       negated |-> run_result[1].negated]
              IN  /\ logger' = finish_mention_coding(
                          log_step(logger, "final_concept_retrieval",
                                   <<agent_picked_concept_id>>, "final_retrieval",
                                   found_mention),
                          coded_concept)
                  /\ coded_concepts' = Append(coded_concepts, coded_concept)
    /\ pc' = "loop"
    /\ UNCHANGED <<store, mentions, pending, found_mention, tool_calls, run_result,
                   standardized, code_mention_calls, tool_invocations>>

\* Lines 225-226 raise: the query fails, or it returns no row and
\* query_result[0] is an IndexError.
FinalizeRaises ==
    /\ pc = "finalize"
    /\ pc' = "raised"
    /\ UNCHANGED <<store, mentions, pending, found_mention, tool_calls, run_result,
                   standardized, coded_concepts, logger, code_mention_calls,
                   tool_invocations>>

\* Lines 49-52: every distinct mention is coded; the log is finalized and the
\* function returns.
ReturnCoded ==
    /\ pc = "loop"
    /\ pending = <<>>
    /\ logger' = finalize(logger, coded_concepts)
    /\ pc' = "returned"
    /\ UNCHANGED <<store, mentions, pending, found_mention, tool_calls, run_result,
                   standardized, coded_concepts, code_mention_calls,
                   tool_invocations>>

(***************************************************************************)
(* SpecOccur: SNOMEDEvaluator._find_all_mention_occurrences                *)
(*                                                                         *)
(* A str is the sequence of its characters.  Positions are 0-based as in   *)
(* Python: the character at position p is s[p + 1].                        *)
(***************************************************************************)
\* The characters of texts and mentions: a letter in both cases, a space and
\* a newline.
TextChars == {"a", "A", " ", "\n"}
Whitespace == {" ", "\n"}
\* str.lower() of a character, which re.IGNORECASE compares.
Lower(c) == IF c = "A" THEN "a" ELSE c

\* re.escape of one character: whitespace is escaped, letters are not.
EscapeChar(c) == IF c \in Whitespace THEN <<"\\", c>> ELSE <<c>>

\* re.escape(mention_str) of line 187.
RECURSIVE re_escape(_)
re_escape(m) ==
    IF m = <<>> THEN <<>> ELSE EscapeChar(Head(m)) \o re_escape(Tail(m))

\* A slip in line 191: a run of escaped spaces becomes one \s+.
RECURSIVE flexible_pattern_runs(_)
flexible_pattern_runs(e) ==
    IF e = <<>> THEN <<>>
    ELSE IF Len(e) >= 4 /\ e[1] = "\\" /\ e[2] = " " /\ e[3] = "\\" /\ e[4] = " "
    THEN flexible_pattern_runs(SubSeq(e, 3, Len(e)))
    ELSE IF Len(e) >= 2 /\ e[1] = "\\" /\ e[2] = " "
    THEN <<"\\", "s", "+">> \o flexible_pattern_runs(SubSeq(e, 3, Len(e)))
    ELSE <<Head(e)>> \o flexible_pattern_runs(Tail(e))

\* escaped_mention.replace(r'\ ', r'\s+') of line 191: every escaped space,
\* from left to right.
RECURSIVE flexible_pattern(_)
flexible_pattern(e) ==
    IF e = <<>> THEN <<>>
    ELSE IF Len(e) >= 2 /\ e[1] = "\\" /\ e[2] = " "
    THEN <<"\\", "s", "+">> \o flexible_pattern(SubSeq(e, 3, Len(e)))
    ELSE <<Head(e)>> \o flexible_pattern(Tail(e))

\* re.compile of line 194: the pattern text read as a sequence of items,
\* \s+ or one literal character (an escaped character stands for itself).
RECURSIVE compile(_)
compile(p) ==
    IF p = <<>> THEN <<>>
    ELSE IF Len(p) >= 3 /\ p[1] = "\\" /\ p[2] = "s" /\ p[3] = "+"
    THEN <<[kind |-> "ws+", char |-> ""]>> \o compile(SubSeq(p, 4, Len(p)))
    ELSE IF p[1] = "\\"
    THEN <<[kind |-> "lit", char |-> p[2]]>> \o compile(SubSeq(p, 3, Len(p)))
    ELSE <<[kind |-> "lit", char |-> p[1]]>> \o compile(Tail(p))

\* The number of whitespace characters of txt from position pos on.
RECURSIVE WsRun(_, _)
WsRun(txt, pos) ==
    IF pos < Len(txt) /\ txt[pos + 1] \in Whitespace
    THEN 1 + WsRun(txt, pos + 1) ELSE 0

\* The regex engine: the end of the match of items i.. at position pos, or -1.
\* \s+ is greedy: it first takes the whole run and gives back one character
\* at a time (k is the number it currently takes).
RECURSIVE MatchEnd(_, _, _, _, _)
MatchEnd(items, txt, i, pos, k) ==
    IF i > Len(items) THEN pos
    ELSE IF items[i].kind = "lit"
    THEN IF pos < Len(txt) /\ Lower(txt[pos + 1]) = Lower(items[i].char)
         THEN MatchEnd(items, txt, i + 1, pos + 1, -1)
         ELSE -1
    ELSE LET take == IF k = -1 THEN WsRun(txt, pos) ELSE k
         IN  IF take < 1 THEN -1
             ELSE LET rest == MatchEnd(items, txt, i + 1, pos + take, -1)
                  IN  IF rest # -1 THEN rest
                      ELSE MatchEnd(items, txt, i, pos, take - 1)

\* pattern.finditer(text) of lines 197-198 from position pos on: the next
\* match is the one at the first position that has one; the search goes on at
\* its end, one further after an empty match.
RECURSIVE finditer(_, _, _)
finditer(items, txt, pos) ==
    IF pos > Len(txt) THEN <<>>
    ELSE LET end == MatchEnd(items, txt, 1, pos, -1)
         IN  IF end = -1 THEN finditer(items, txt, pos + 1)
             ELSE <<<<pos, end>>>>
                  \o finditer(items, txt, IF end = pos THEN pos + 1 ELSE end)

\* SNOMEDEvaluator._find_all_mention_occurrences
find_all_mention_occurrences(txt, m) ==
    finditer(compile(flexible_pattern(re_escape(m))), txt, 0)

OccIdle ==
    /\ occ_text = <<>> /\ mention_str = <<>> /\ occurrences = <<>> /\ occPc = "idle"

OccInit ==
    /\ occ_text \in SeqsUpTo(TextChars, MaxTextLen)
    /\ mention_str \in SeqsUpTo(TextChars, MaxMentionLen)
    /\ occurrences = <<>>
    /\ occPc = "start"

\* occurrences = self._find_all_mention_occurrences(text, mention_str)
FindOccurrences ==
    /\ occPc = "start"
    /\ occurrences' = find_all_mention_occurrences(occ_text, mention_str)
    /\ occPc' = "done"
    /\ UNCHANGED <<occ_text, mention_str>>

(***************************************************************************)
(* SpecEntities: SNOMEDEvaluator.extract_entities                          *)
(*                                                                         *)
(* The evaluator's concept table gives each concept id a vocabulary, or    *)
(* "no row"; the concept_code of a row is a decimal text different from    *)
(* the text of its id.                                                     *)
(***************************************************************************)
Vocabularies == {"SNOMED", "RxNorm", "no row"}
\* The characters of the texts given to extract_entities, and those of the
\* mention strings of the coded concepts.
EntChars == {"a", "A", " "}
MentionChars == {"a", "A"}

\* concept_code of the row of concept id n.
ConceptCode(n) == Decimal(n + MaxConceptId)

\* A FullCodedConcept as extract_and_code_mentions returns it: concept_id is
\* str() of the id of a concept row.
CodedConcepts ==
    [mention_str : SeqsUpTo(MentionChars, MaxEntMentionLen),
     concept_id : {PyStr(Decimal(n)) : n \in ConceptIds},
     negated : BOOLEAN]

\* The lists extract_and_code_mentions returns: one concept per distinct
\* mention string.
CodedConceptLists ==
    {cs \in SeqsUpTo(CodedConcepts, MaxCodedConcepts) :
        \A i, j \in DOMAIN cs : cs[i].mention_str = cs[j].mention_str => i = j}

\* A slip in line 216: the vocabulary of the row is not looked at.
get_snomed_code_anyVocabulary(omop_concept_id, vocab, lookup_fails) ==
    IF lookup_fails THEN <<>>
    ELSE IF vocab[SqlNumber(omop_concept_id)] = "no row" THEN <<>>
    ELSE PyStr(ConceptCode(SqlNumber(omop_concept_id)))

\* SNOMEDEvaluator._get_snomed_code_from_omop_id; <<>> stands for None.
get_snomed_code_from_omop_id(omop_concept_id, vocab, lookup_fails) ==
    IF lookup_fails THEN <<>>
    ELSE IF vocab[SqlNumber(omop_concept_id)] = "no row" THEN <<>>
    ELSE IF vocab[SqlNumber(omop_concept_id)] \in {"SNOMED", "SNOMEDCT_US"}
    THEN PyStr(ConceptCode(SqlNumber(omop_concept_id)))
    ELSE <<>>

\* A slip in lines 152-159: a negated concept yields no entity.
EntitiesOfAffirmedOccurrences(txt, occs, snomed_code, concept) ==
    IF concept.negated THEN <<>>
    ELSE [k \in DOMAIN occs |->
             [start |-> occs[k][1],
              end |-> occs[k][2],
              text |-> SubSeq(txt, occs[k][1] + 1, occs[k][2]),
              concept_id |-> PyInt(SqlNumber(snomed_code)),
              omop_concept_id |-> PyInt(SqlNumber(concept.concept_id))]]

\* Lines 152-159: one entity per occurrence.
EntitiesOfOccurrences(txt, occs, snomed_code, concept) ==
    [k \in DOMAIN occs |->
        [start |-> occs[k][1],
         end |-> occs[k][2],
         text |-> SubSeq(txt, occs[k][1] + 1, occs[k][2]),
         concept_id |-> PyInt(SqlNumber(snomed_code)),
         omop_concept_id |-> PyInt(SqlNumber(concept.concept_id))]]

\* The loop of lines 142-159 over the concepts from index i on; fails is the
\* set of indices whose code lookup fails.
RECURSIVE CollectEntities(_, _, _, _, _)
CollectEntities(txt, concepts, vocab, fails, i) ==
    IF i > Len(concepts) THEN <<>>
    ELSE LET concept == concepts[i]
             snomed_code == get_snomed_code_from_omop_id(concept.concept_id, vocab,
                                                         i \in fails)
         IN  (IF snomed_code # <<>> /\ snomed_code[2] # <<>>
              THEN EntitiesOfOccurrences(txt,
                       find_all_mention_occurrences(txt, concept.mention_str),
                       snomed_code, concept)
              ELSE <<>>)
             \o CollectEntities(txt, concepts, vocab, fails, i + 1)

\* Lines 165-166: entity.pop('omop_concept_id', None).
PopOmopConceptId(ents) ==
    [k \in DOMAIN ents |->
        [start |-> ents[k].start, end |-> ents[k].end, text |-> ents[k].text,
         concept_id |-> ents[k].concept_id]]

EntIdle ==
    /\ ent_text = <<>> /\ reports_dir = None /\ vocabulary = <<>>
    /\ ent_concepts = <<>> /\ failed_lookups = {}
    /\ competition_entities = <<>> /\ emitted = <<>> /\ report_saved = FALSE
    /\ entPc = "idle"

\* extract_entities is called with a text; reports_dir is None until
\* setup_output_directories has run.
EntInit ==
    /\ ent_text \in SeqsUpTo(EntChars, MaxEntTextLen)
    /\ reports_dir \in {"reports", None}
    /\ vocabulary \in [ConceptIds -> Vocabularies]
    /\ ent_concepts = <<>> /\ failed_lookups = {}
    /\ competition_entities = <<>> /\ emitted = <<>> /\ report_saved = FALSE
    /\ entPc = "start"

\* Lines 131-168: extract_and_code_mentions returns a list of coded concepts;
\* the report is saved, the occurrences of the translatable concepts are
\* collected, overlaps are resolved and the entities are returned.
ExtractEntities ==
    /\ entPc = "start"
    /\ \E concepts \in CodedConceptLists, fails \in SUBSET (1..MaxCodedConcepts) :
           /\ fails \subseteq DOMAIN concepts
           /\ ent_concepts' = concepts
           /\ failed_lookups' = fails
           /\ competition_entities' =
                  CollectEntities(ent_text, concepts, vocabulary, fails, 1)
    /\ report_saved' = (reports_dir # None)
    /\ emitted' = PopOmopConceptId(resolve_overlapping_spans(competition_entities'))
    /\ entPc' = "returned"
    /\ UNCHANGED <<ent_text, reports_dir, vocabulary>>

\* Lines 133 and 170-172: extract_and_code_mentions raises; the error is
\* logged and [] is returned.
ExtractEntitiesFails ==
    /\ entPc = "start"
    /\ emitted' = <<>>
    /\ entPc' = "failed"
    /\ UNCHANGED <<ent_text, reports_dir, vocabulary, ent_concepts, failed_lookups,
                   competition_entities, report_saved>>

(***************************************************************************)
(* SpecBatch: SNOMEDEvaluator.process_notes                                *)
(*                                                                         *)
(* A call of extract_entities is summarised by its outcome: the entities   *)
(* it had built, and whether an exception reached its except branch.       *)
(***************************************************************************)
NoteIds == {"n1", "n2", "n3"}

\* Entities as process_notes reads them: start, end and concept_id.
BatchEntities == {[start |-> 0, end |-> 1, concept_id |-> c] : c \in ConceptCodes}

Outcomes == [raised : BOOLEAN, entities : SeqsUpTo(BatchEntities, MaxNoteEntities)]

\* A slip in lines 170-172: the entities built before the exception are
\* returned.
extract_entities_keepPartial(outcome) == outcome.entities

\* What extract_entities returns (lines 168 and 172).
extract_entities(outcome) ==
    IF outcome.raised THEN <<>> ELSE outcome.entities

\* Lines 314-320: the rows of one note.
RowsOf(note_id, ents) ==
    [k \in DOMAIN ents |->
        [note_id |-> note_id, start |-> ents[k].start, end |-> ents[k].end,
         concept_id |-> ents[k].concept_id]]

\* process_notes over a whole batch, the calls of extract_entities having
\* the outcomes outs.
RECURSIVE process_notes(_, _)
process_notes(notes, outs) ==
    IF notes = <<>> THEN <<>>
    ELSE RowsOf(Head(notes), extract_entities(Head(outs)))
         \o process_notes(Tail(notes), Tail(outs))

BatchIdle ==
    /\ notes_df = <<>> /\ batch_idx = 0 /\ outcomes = <<>> /\ results = <<>>
    /\ batchPc = "idle"

\* notes_df holds notes with distinct note ids; results = [].
BatchInit ==
    /\ notes_df \in {ns \in SeqsUpTo(NoteIds, MaxNotes) :
                        \A i, j \in DOMAIN ns : ns[i] = ns[j] => i = j}
    /\ batch_idx = 1 /\ outcomes = <<>> /\ results = <<>>
    /\ batchPc = "loop"

\* Lines 306-320: one iteration; extract_entities returns its entities.
ProcessNote ==
    /\ batchPc = "loop"
    /\ batch_idx <= Len(notes_df)
    /\ \E ents \in SeqsUpTo(BatchEntities, MaxNoteEntities) :
           LET outcome == [raised |-> FALSE, entities |-> ents]
           IN  /\ outcomes' = Append(outcomes, outcome)
               /\ results' = results \o RowsOf(notes_df[batch_idx],
                                               extract_entities(outcome))
    /\ batch_idx' = batch_idx + 1
    /\ UNCHANGED <<notes_df, batchPc>>

\* Lines 306-320: one iteration; an exception reaches the except branch of
\* extract_entities.
ProcessNoteFails ==
    /\ batchPc = "loop"
    /\ batch_idx <= Len(notes_df)
    /\ \E ents \in SeqsUpTo(BatchEntities, MaxNoteEntities) :
           LET outcome == [raised |-> TRUE, entities |-> ents]
           IN  /\ outcomes' = Append(outcomes, outcome)
               /\ results' = results \o RowsOf(notes_df[batch_idx],
                                               extract_entities(outcome))
    /\ batch_idx' = batch_idx + 1
    /\ UNCHANGED <<notes_df, batchPc>>

\* Line 322: return results.
ReturnResults ==
    /\ batchPc = "loop"
    /\ batch_idx > Len(notes_df)
    /\ batchPc' = "done"
    /\ UNCHANGED <<notes_df, batch_idx, outcomes, results>>

(***************************************************************************)
(* SpecContext: get_concept_ids_context and get_hits_context               *)
(*                                                                         *)
(* The ids are joined into the IN list of a SQL query.  The database       *)
(* rejects the query when the list is empty or an operand is not a number; *)
(* rows come back in an order the query does not fix.                      *)
(***************************************************************************)
\* Texts of concept ids: the ids with a row, an id without one, an id with a
\* leading blank, and a text that is no number.
HitIdTexts == {Decimal(n) : n \in 1..(MaxConceptId + 1)}
CtxIdTexts == HitIdTexts \cup {<<" ", "1">>, <<"x">>}

\* The text is a number to the SQL parser.
ValidOperand(cs) ==
    /\ \E k \in DOMAIN cs : cs[k] # " "
    /\ \A k \in DOMAIN cs : cs[k] = " " \/ \E v \in 0..9 : DigitChars[v + 1] = cs[k]

\* conn.execute accepts "... IN (" + ','.join(ids) + ")".
ValidInList(ids) ==
    /\ ids # <<>>
    /\ \A k \in DOMAIN ids : ValidOperand(ids[k][2])

\* sql_db.run_query raises on the IN list of ids (sql_db.py:139).
RunQueryRaises(ids) == ~ValidInList(ids)

\* Rows of the 'Maps to' query of line 58.
MappingRows(ids, maps) ==
    {r \in maps : \E k \in DOMAIN ids : r[1] = SqlNumber(ids[k])}

\* Line 62: the dict built from the rows, as the set of its keys and the
\* value of each key (a later row replaces an earlier one).
MappingKeys(mapping_results) ==
    {PyStr(Decimal(mapping_results[k][1])) : k \in DOMAIN mapping_results}

MappingValue(mapping_results, key) ==
    LET last == CHOOSE k \in DOMAIN mapping_results :
                    /\ PyStr(Decimal(mapping_results[k][1])) = key
                    /\ \A j \in DOMAIN mapping_results :
                           PyStr(Decimal(mapping_results[j][1])) = key => j <= k
    IN  PyStr(Decimal(mapping_results[last][2]))

\* Lines 65-70.
SubstituteStandard(ids, mapping_results) ==
    [k \in DOMAIN ids |->
        IF ids[k] \in MappingKeys(mapping_results)
        THEN MappingValue(mapping_results, ids[k])
        ELSE ids[k]]

\* Line 73: list(dict.fromkeys(final_concept_ids)).
RECURSIVE FromKeys(_)
FromKeys(ids) ==
    IF ids = <<>> THEN <<>>
    ELSE LET rest == FromKeys(SubSeq(ids, 1, Len(ids) - 1))
             x == ids[Len(ids)]
         IN  IF \E k \in DOMAIN rest : rest[k] = x THEN rest ELSE Append(rest, x)

\* Ids of the rows of the details query of lines 76-77.
DetailIds(final_concept_ids) ==
    {n \in ConceptIds : \E k \in DOMAIN final_concept_ids :
                            n = SqlNumber(final_concept_ids[k])}

\* A slip in lines 84-92: related concepts may be left out.
RelationListsOrNone(S) ==
    {<<>>} \cup {[k \in DOMAIN q |-> PyStr(Decimal(q[k]))] : q \in Orders(S)}

\* Lines 84-92: the related concepts; <<>> stands for the None of a concept
\* without any.
RelationLists(S) ==
    IF S = {} THEN {<<>>}
    ELSE {[k \in DOMAIN q |-> PyStr(Decimal(q[k]))] : q \in Orders(S)}

\* Lines 81-104: the EnhancedConcepts that can be built for concept n.
EnhancedConcepts(n, is_a) ==
    [concept_id : {PyStr(Decimal(n))},
     parent_concepts : RelationLists({r[2] : r \in {x \in is_a : x[1] = n}}),
     child_concepts : RelationLists({r[1] : r \in {x \in is_a : x[2] = n}})]

\* Lines 55-109: the collections get_concept_ids_context can return for a
\* list the database accepts.
ConceptCollections(ids, maps, is_a) ==
    UNION {
        LET final_concept_ids == FromKeys(SubstituteStandard(ids, mapping_results))
        IN  UNION {
                {[concepts |-> enhanced_concepts,
                  total_count |-> Len(enhanced_concepts),
                  search_query |-> None] :
                    enhanced_concepts \in
                        {q \in [DOMAIN hits_details ->
                                   UNION {EnhancedConcepts(n, is_a) : n \in ConceptIds}] :
                            \A k \in DOMAIN q :
                                q[k] \in EnhancedConcepts(hits_details[k], is_a)}}
                : hits_details \in Orders(DetailIds(final_concept_ids))}
        : mapping_results \in Orders(MappingRows(ids, maps))}

CtxIdle ==
    /\ ctx_caller = "" /\ ctx_concept_ids = <<>> /\ ctx_maps_to = {}
    /\ ctx_is_a = {} /\ collection = None /\ collection_again = None
    /\ ctxPc = "idle"

\* get_hits_context passes the ids of the hits of the similarity search (none
\* when there is no hit); the concept_context tool passes the ids the
\* reasoning step wrote.
CtxInit ==
    /\ ctx_caller \in {"get_hits_context", "get_concept_context"}
    /\ ctx_concept_ids \in
           IF ctx_caller = "get_hits_context"
           THEN SeqsUpTo({PyStr(cs) : cs \in HitIdTexts}, MaxCtxIds)
           ELSE SeqsUpTo({PyStr(cs) : cs \in CtxIdTexts}, MaxCtxIds)
    /\ ctx_maps_to \in SUBSET (ConceptIds \X ConceptIds)
    /\ ctx_is_a \in SUBSET {r \in ConceptIds \X ConceptIds : r[1] # r[2]}
    /\ collection = None /\ collection_again = None
    /\ ctxPc = "start"

\* Lines 55-109 (and 120-124 for get_hits_context): the collection is built
\* and returned.
GetConceptIdsContext ==
    /\ ctxPc = "start"
    /\ ~RunQueryRaises(ctx_concept_ids)
    /\ \E c \in ConceptCollections(ctx_concept_ids, ctx_maps_to, ctx_is_a) :
           collection' = IF ctx_caller = "get_hits_context"
                         THEN [c EXCEPT !.search_query = "found_mention"]
                         ELSE c
    /\ ctxPc' = "returned"
    /\ UNCHANGED <<ctx_caller, ctx_concept_ids, ctx_maps_to, ctx_is_a,
                   collection_again>>

\* A second call with the same list, the Concept Store unchanged.
GetConceptIdsContextAgain ==
    /\ ctxPc = "returned"
    /\ \E c \in ConceptCollections(ctx_concept_ids, ctx_maps_to, ctx_is_a) :
           collection_again' = IF ctx_caller = "get_hits_context"
                               THEN [c EXCEPT !.search_query = "found_mention"]
                               ELSE c
    /\ ctxPc' = "returned again"
    /\ UNCHANGED <<ctx_caller, ctx_concept_ids, ctx_maps_to, ctx_is_a, collection>>

\* Lines 58-59: run_query raises; neither function catches the error.
GetConceptIdsContextRaises ==
    /\ ctxPc = "start"
    /\ RunQueryRaises(ctx_concept_ids)
    /\ ctxPc' = "raised"
    /\ UNCHANGED <<ctx_caller, ctx_concept_ids, ctx_maps_to, ctx_is_a, collection,
                   collection_again>>

(***************************************************************************)
(* SpecMain: main() of snomed_eval.py                                      *)
(*                                                                         *)
(* The notes CSV and the annotations CSV are given by the columns they     *)
(* hold; annotation_orphan says that an annotation names a note_id that    *)
(* is not among the notes.                                                 *)
(***************************************************************************)
NotesColumns == {"note_id", "text"}
AnnotationColumns == {"note_id", "start", "end", "concept_id"}

MainIdle ==
    /\ main_pc = "idle" /\ notes_columns = {} /\ annotation_columns = {}
    /\ annotation_orphan = FALSE /\ evaluate_flag = FALSE
    /\ main_notes = 0 /\ main_idx = 0 /\ extractions = 0

\* The files on disk and the --evaluate argument.
MainInit ==
    /\ main_pc = "start"
    /\ notes_columns \in SUBSET NotesColumns
    /\ annotation_columns \in SUBSET AnnotationColumns
    /\ annotation_orphan \in BOOLEAN
    /\ evaluate_flag \in BOOLEAN
    /\ main_notes \in 0..MaxNotes
    /\ main_idx = 0 /\ extractions = 0

\* Lines 722-731: resources, output directories, load_data; pd.read_csv
\* returns whatever columns the file has.
LoadData ==
    /\ main_pc = "start"
    /\ main_pc' = "process_notes"
    /\ main_idx' = 1
    /\ UNCHANGED <<notes_columns, annotation_columns, annotation_orphan,
                   evaluate_flag, main_notes, extractions>>

\* Lines 722-731 raise (a resource or the notes file is missing); lines
\* 760-762 exit with status 1.
LoadDataFails ==
    /\ main_pc = "start"
    /\ main_pc' = "exit 1"
    /\ UNCHANGED <<notes_columns, annotation_columns, annotation_orphan,
                   evaluate_flag, main_notes, main_idx, extractions>>

\* process_notes, lines 306-320: the row has its columns and the extraction of
\* the note runs.
ExtractNote ==
    /\ main_pc = "process_notes"
    /\ main_idx <= main_notes
    /\ NotesColumns \subseteq notes_columns
    /\ extractions' = extractions + 1
    /\ main_idx' = main_idx + 1
    /\ UNCHANGED <<main_pc, notes_columns, annotation_columns, annotation_orphan,
                   evaluate_flag, main_notes>>

\* process_notes, lines 307-308: row['note_id'] or row['text'] is a KeyError;
\* lines 760-762 exit with status 1.
RowKeyError ==
    /\ main_pc = "process_notes"
    /\ main_idx <= main_notes
    /\ ~(NotesColumns \subseteq notes_columns)
    /\ main_pc' = "exit 1"
    /\ UNCHANGED <<notes_columns, annotation_columns, annotation_orphan,
                   evaluate_flag, main_notes, main_idx, extractions>>

\* Lines 734-740: all rows are processed; the submission file is written.
CreateSubmission ==
    /\ main_pc = "process_notes"
    /\ main_idx > main_notes
    /\ main_pc' = IF evaluate_flag THEN "evaluate" ELSE "done"
    /\ UNCHANGED <<notes_columns, annotation_columns, annotation_orphan,
                   evaluate_flag, main_notes, main_idx, extractions>>

\* Lines 740-758: load_annotations reads the file as it is;
\* evaluate_submission returns its metrics, or {} from its except branch;
\* the summary report is written and main ends normally.
Evaluate ==
    /\ main_pc = "evaluate"
    /\ main_pc' = "done"
    /\ UNCHANGED <<notes_columns, annotation_columns, annotation_orphan,
                   evaluate_flag, main_notes, main_idx, extractions>>

\* Line 742 raises (the annotations file is missing); lines 760-762 exit
\* with status 1.
LoadAnnotationsFails ==
    /\ main_pc = "evaluate"
    /\ main_pc' = "exit 1"
    /\ UNCHANGED <<notes_columns, annotation_columns, annotation_orphan,
                   evaluate_flag, main_notes, main_idx, extractions>>

(***************************************************************************)
(* SpecAnalyze: SpanAnalyzer.analyze_spans                                 *)
(*                                                                         *)
(* Spans carry their note_id.  An Optional[SpanInfo] is <<>> for None and  *)
(* <<span>> otherwise.  _analyze_note_spans is applied to the spans of     *)
(* one note as a function.                                                 *)
(***************************************************************************)
AnalyzerNoteIds == {"n1", "n2"}

AnalyzerSpans ==
    {sp \in [note_id : AnalyzerNoteIds, start : 0..MaxNotePos, end : 0..MaxNotePos,
             concept_id : ConceptCodes] : sp.start < sp.end}

\* Lines 175-182: the spans of one note, in list order.
ByNote(spans, note_id) == SelectSeq(spans, LAMBDA sp : sp.note_id = note_id)

\* Lines 267-279.
NewNoteStats ==
    [exact_matches |-> 0, partial_overlaps |-> 0, concept_mismatches |-> 0,
     agent_only_spans |-> 0, gold_only_spans |-> 0]

\* The loop of lines 282-323 from agent index i on; acc holds comparisons,
\* stats and the two sets of matched indices.
RECURSIVE MatchLoop(_, _, _, _, _)
MatchLoop(agents, golds, threshold, i, acc) ==
    IF i > Len(agents) THEN acc
    ELSE LET best == FindBestMatch(agents[i], golds, acc.matched_gold_indices,
                                   threshold)
         IN  IF best.best_gold_idx = 0
             THEN MatchLoop(agents, golds, threshold, i + 1, acc)
             ELSE LET best_match == golds[best.best_gold_idx]
                      overlap_type == Classify(agents[i], best_match)
                  IN  MatchLoop(agents, golds, threshold, i + 1,
                          [comparisons |-> Append(acc.comparisons,
                               [agent_span |-> <<agents[i]>>,
                                gold_span |-> <<best_match>>,
                                overlap_type |-> overlap_type,
                                iou_score |-> best.best_iou,
                                overlap_length |-> overlap_length(agents[i], best_match)]),
                           stats |-> [acc.stats EXCEPT ![CounterOf(overlap_type)] = @ + 1],
                           matched_agent_indices |-> acc.matched_agent_indices \cup {i},
                           matched_gold_indices |->
                               acc.matched_gold_indices \cup {best.best_gold_idx}])

\* Lines 326-351: the comparison of an unmatched span, for the agent side
\* or the gold side.
OneSided(side, sp) ==
    [agent_span |-> IF side = "agent" THEN <<sp>> ELSE <<>>,
     gold_span |-> IF side = "gold" THEN <<sp>> ELSE <<>>,
     overlap_type |-> "no_overlap", iou_score |-> Zero, overlap_length |-> 0]

\* A slip in lines 326-337: the last agent span is never reported as
\* unmatched.
UnmatchedOfAllButLast(side, spans, matched) ==
    LET idx == SelectSeq([k \in 1..Len(spans) |-> k],
                         LAMBDA k : k \notin matched /\ k < Len(spans))
    IN  [k \in DOMAIN idx |-> OneSided(side, spans[idx[k]])]

\* Lines 326-337 and 340-351: the comparisons of the spans whose index is
\* not in the matched set.
UnmatchedOf(side, spans, matched) ==
    LET idx == SelectSeq([k \in 1..Len(spans) |-> k], LAMBDA k : k \notin matched)
    IN  [k \in DOMAIN idx |-> OneSided(side, spans[idx[k]])]

\* SpanAnalyzer._analyze_note_spans (lines 263-354).
analyze_note_spans(agents, golds, threshold) ==
    LET m == MatchLoop(agents, golds, threshold, 1,
               [comparisons |-> <<>>, stats |-> NewNoteStats,
                matched_agent_indices |-> {}, matched_gold_indices |-> {}])
        agent_only == UnmatchedOf("agent", agents, m.matched_agent_indices)
        gold_only == UnmatchedOf("gold", golds, m.matched_gold_indices)
        all == m.comparisons \o agent_only \o gold_only
    IN  [stats |-> [m.stats EXCEPT !.agent_only_spans = @ + Len(agent_only),
                                   !.gold_only_spans = @ + Len(gold_only)],
         agent_span_count |-> Len(agents),
         gold_span_count |-> Len(golds),
         comparisons |-> [k \in DOMAIN all |-> ToDict(all[k])]]

\* Lines 238-251: the counts of one concept id.
ConceptStats(agents, golds, comps, c) ==
    [agent_count |-> Len(SelectSeq(agents, LAMBDA sp : sp.concept_id = c)),
     gold_count |-> Len(SelectSeq(golds, LAMBDA sp : sp.concept_id = c)),
     matches |-> Len(SelectSeq(comps, LAMBDA cmp :
                        /\ cmp.overlap_type = "exact_match"
                        /\ cmp.agent_span[1].concept_id = c))]

AnalyzeIdle ==
    /\ an_agent_spans = <<>> /\ an_gold_spans = <<>> /\ an_threshold = Zero
    /\ pending_notes = {} /\ an_comparisons = <<>> /\ an_stats = NewNoteStats
    /\ by_note_id = <<>> /\ by_concept_id = <<>> /\ anPc = "idle"

\* Lines 175-203: the spans are grouped by note and the totals are zero.
AnalyzeInit ==
    /\ an_agent_spans \in SeqsUpTo(AnalyzerSpans, MaxAgentSpans)
    /\ an_gold_spans \in SeqsUpTo(AnalyzerSpans, MaxGoldSpans)
    /\ an_threshold \in {<<1, 2>>, <<1, 1>>}
    /\ pending_notes = {an_agent_spans[k].note_id : k \in DOMAIN an_agent_spans}
                       \cup {an_gold_spans[k].note_id : k \in DOMAIN an_gold_spans}
    /\ an_comparisons = <<>> /\ an_stats = NewNoteStats
    /\ by_note_id = <<>> /\ by_concept_id = <<>> /\ anPc = "notes"

\* One pass of the loop of lines 205-235, for a note of all_notes (a set:
\* its iteration order is not fixed).
AnalyzeNote ==
    /\ anPc = "notes"
    /\ \E note_id \in pending_notes :
           LET note_stats == analyze_note_spans(ByNote(an_agent_spans, note_id),
                                                ByNote(an_gold_spans, note_id),
                                                an_threshold)
           IN  /\ by_note_id' = Append(by_note_id,
                                       [note_id |-> note_id, note_stats |-> note_stats])
               /\ an_comparisons' = an_comparisons \o note_stats.comparisons
               /\ an_stats' =
                      [f \in DOMAIN an_stats |-> an_stats[f] + note_stats.stats[f]]
               /\ pending_notes' = pending_notes \ {note_id}
    /\ UNCHANGED <<an_agent_spans, an_gold_spans, an_threshold, by_concept_id, anPc>>

\* Lines 237-261: the concept-level counts; the function returns.
ReturnAnalysis ==
    /\ anPc = "notes"
    /\ pending_notes = {}
    /\ by_concept_id' =
           LET ids == {an_agent_spans[k].concept_id : k \in DOMAIN an_agent_spans}
                      \cup {an_gold_spans[k].concept_id : k \in DOMAIN an_gold_spans}
                      \cup {an_comparisons[k].agent_span[1].concept_id :
                              k \in {j \in DOMAIN an_comparisons :
                                       an_comparisons[j].overlap_type = "exact_match"}}
           IN  [c \in ids |-> ConceptStats(an_agent_spans, an_gold_spans,
                                           an_comparisons, c)]
    /\ anPc' = "done"
    /\ UNCHANGED <<an_agent_spans, an_gold_spans, an_threshold, pending_notes,
                   an_comparisons, an_stats, by_note_id>>

(***************************************************************************)
(* SpecEvaluate: SNOMEDEvaluator.evaluate_submission                       *)
(*                                                                         *)
(* A data frame is the list of its rows.  evals/scoring.py, which holds    *)
(* iou_per_class, is not among the sources: its result is left open, one   *)
(* IoU per class.                                                          *)
(***************************************************************************)
MaxPredictions == 2
MaxGroundTruth == 1

EvalNoteIds == {"n1", "n2"}

EvalRows ==
    {r \in [note_id : EvalNoteIds, start : 0..MaxNotePos, end : 0..MaxNotePos,
            concept_id : ConceptCodes] : r.start <= r.end}

\* The values left open for the IoU of a class.
ClassIous == {Zero, <<1, 2>>, <<1, 1>>}

RatAdd(p, q) == <<p[1] * q[2] + q[1] * p[2], p[2] * q[2]>>

RatMul(p, q) == <<p[1] * q[1], p[2] * q[2]>>

\* p / q for q # 0.
RatDiv(p, q) == <<p[1] * q[2], p[2] * q[1]>>

\* SNOMEDEvaluator._spans_have_significant_overlap, threshold 0.5.
spans_have_significant_overlap(span1, span2) ==
    LET intersection == Max(0, Min(span1.end, span2.end)
                                - Max(span1.start, span2.start))
        union == Max(span1.end, span2.end) - Min(span1.start, span2.start)
    IN  IF union = 0
        THEN span1.start = span2.start /\ span1.end = span2.end
        ELSE RatLe(<<1, 2>>, <<intersection, union>>)

\* SNOMEDEvaluator._count_matches_for_class (lines 443-452): the predictions
\* that significantly overlap some ground truth row of their note.
count_matches_for_class(pred_df, gt_df) ==
    Len(SelectSeq(pred_df, LAMBDA pred_row :
            \E j \in DOMAIN gt_df :
                /\ pred_row.note_id = gt_df[j].note_id
                /\ spans_have_significant_overlap(pred_row, gt_df[j])))

\* The sum of the values of f over S.
RECURSIVE SumOver(_, _)
SumOver(S, f) ==
    IF S = {} THEN 0
    ELSE LET x == CHOOSE y \in S : TRUE
         IN  f[x] + SumOver(S \ {x}, f)

\* Lines 367-370.
AllConceptIds(sub, gt) ==
    {sub[k].concept_id : k \in DOMAIN sub} \cup {gt[k].concept_id : k \in DOMAIN gt}

\* Lines 363-372: total_matches.
TotalMatches(sub, gt) ==
    SumOver(AllConceptIds(sub, gt),
        [concept_id \in AllConceptIds(sub, gt) |->
            count_matches_for_class(
                SelectSeq(sub, LAMBDA r : r.concept_id = concept_id),
                SelectSeq(gt, LAMBDA r : r.concept_id = concept_id))])

RECURSIVE RatSum(_, _)
RatSum(S, f) ==
    IF S = {} THEN Zero
    ELSE LET x == CHOOSE y \in S : TRUE
         IN  RatAdd(f[x], RatSum(S \ {x}, f))

\* Lines 361-396: the metrics for a result class_ious of iou_per_class.
Metrics(sub, gt, class_ious) ==
    LET macro_avg_iou ==
            IF DOMAIN class_ious = {} THEN Zero
            ELSE RatDiv(RatSum(DOMAIN class_ious, class_ious),
                        <<Cardinality(DOMAIN class_ious), 1>>)
        total_matches == TotalMatches(sub, gt)
        total_predictions == Len(sub)
        total_ground_truth == Len(gt)
        precision == IF total_predictions > 0
                     THEN <<total_matches, total_predictions>> ELSE Zero
        recall == IF total_ground_truth > 0
                  THEN <<total_matches, total_ground_truth>> ELSE Zero
        f1 == IF RatLt(Zero, RatAdd(precision, recall))
              THEN RatDiv(RatMul(<<2, 1>>, RatMul(precision, recall)),
                          RatAdd(precision, recall))
              ELSE Zero
    IN  [macro_avg_iou |-> macro_avg_iou,
         precision |-> precision,
         recall |-> recall,
         f1 |-> f1,
         total_predictions |-> total_predictions,
         total_ground_truth |-> total_ground_truth,
         total_matches |-> total_matches,
         num_classes |-> Cardinality(DOMAIN class_ious),
         class_ious |-> class_ious]

EvalIdle ==
    /\ submission_df = <<>> /\ ground_truth_df = <<>> /\ metrics = <<>>
    /\ evalPc = "idle"

\* The two CSV files as create_submission_file and the annotation file
\* hold them.
EvalInit ==
    /\ submission_df \in SeqsUpTo(EvalRows, MaxPredictions)
    /\ ground_truth_df \in SeqsUpTo(EvalRows, MaxGroundTruth)
    /\ metrics = <<>>
    /\ evalPc = "start"

\* Lines 351-396: both files are read and the metrics are returned.
EvaluateSubmission ==
    /\ evalPc = "start"
    /\ \E class_ious \in [AllConceptIds(submission_df, ground_truth_df) -> ClassIous] :
           metrics' = Metrics(submission_df, ground_truth_df, class_ious)
    /\ evalPc' = "returned"
    /\ UNCHANGED <<submission_df, ground_truth_df>>

\* Lines 398-400: reading a file or iou_per_class raises; the error is
\* logged and {} is returned.
EvaluateSubmissionFails ==
    /\ evalPc = "start"
    /\ metrics' = <<>>
    /\ evalPc' = "failed"
    /\ UNCHANGED <<submission_df, ground_truth_df>>

(***************************************************************************)
(* SpecStandard: the two places that follow a 'Maps to' row                *)
(*                                                                         *)
(* The STANDARDIZE step of code_mention (lines 205-220) and the            *)
(* substitution of get_concept_ids_context (lines 57-70), applied to one   *)
(* concept id against one store, in either order.  <<>> stands for "not    *)
(* computed yet".                                                          *)
(***************************************************************************)
StdIdle ==
    /\ std_maps_to = {} /\ std_concept_id = <<>> /\ std_picked = <<>>
    /\ std_final = <<>>

\* A store and a concept id as the reasoning step writes it.
StdInit ==
    /\ std_maps_to \in SUBSET (ConceptIds \X ConceptIds)
    /\ std_concept_id \in {PyStr(cs) : cs \in HitIdTexts \cup {<<" ", "1">>}}
    /\ std_picked = <<>>
    /\ std_final = <<>>

\* Lines 205-220 of code_mention for original_concept_id = std_concept_id.
CoderStandardizes ==
    /\ std_concept_id # <<>>
    /\ std_picked = <<>>
    /\ \E query_result \in MapsToRows(std_maps_to, std_concept_id) :
           std_picked' =
               <<Standardize(query_result, std_concept_id).agent_picked_concept_id>>
    /\ UNCHANGED <<std_maps_to, std_concept_id, std_final>>

\* Lines 57-70 of get_concept_ids_context for concept_ids = [std_concept_id].
ContextSubstitutes ==
    /\ std_concept_id # <<>>
    /\ std_final = <<>>
    /\ \E mapping_results \in Orders(MappingRows(<<std_concept_id>>, std_maps_to)) :
           std_final' = SubstituteStandard(<<std_concept_id>>, mapping_results)
    /\ UNCHANGED <<std_maps_to, std_concept_id, std_picked>>

(***************************************************************************)
(* Specifications                                                          *)
(***************************************************************************)
IouNext ==
    /\ ComputeIou
    /\ UNCHANGED <<resVars, noteVars, coderVars, occVars, entVars,
                   batchVars, ctxVars, mainVars, analyzeVars, evalVars,
                   stdVars>>

IouSpecInit ==
    /\ IouInit
    /\ ResIdle /\ NoteIdle /\ CoderIdle /\ OccIdle /\ EntIdle /\ BatchIdle
    /\ CtxIdle /\ MainIdle /\ AnalyzeIdle /\ EvalIdle /\ StdIdle

SpecIou == IouSpecInit /\ [][IouNext]_vars

ResNext ==
    /\ Resolve
    /\ UNCHANGED <<iouVars, noteVars, coderVars, occVars, entVars,
                   batchVars, ctxVars, mainVars, analyzeVars, evalVars,
                   stdVars>>

ResSpecInit ==
    /\ ResInit
    /\ IouIdle /\ NoteIdle /\ CoderIdle /\ OccIdle /\ EntIdle /\ BatchIdle
    /\ CtxIdle /\ MainIdle /\ AnalyzeIdle /\ EvalIdle /\ StdIdle

SpecResolve == ResSpecInit /\ [][ResNext]_vars

NoteNext ==
    /\ \/ MatchAgentSpan
       \/ UnmatchedAgentSpans
       \/ UnmatchedGoldSpans
    /\ UNCHANGED <<iouVars, resVars, coderVars, occVars, entVars, batchVars,
                   ctxVars, mainVars, analyzeVars, evalVars, stdVars>>

NoteSpecInit ==
    /\ NoteInit
    /\ IouIdle /\ ResIdle /\ CoderIdle /\ OccIdle /\ EntIdle /\ BatchIdle
    /\ CtxIdle /\ MainIdle /\ AnalyzeIdle /\ EvalIdle /\ StdIdle

SpecNote == NoteSpecInit /\ [][NoteNext]_vars

CoderNext ==
    /\ \/ IdentifyMentions
       \/ IdentifyMentionsRaises
       \/ BeginCodeMention
       \/ BeginCodeMentionRaises
       \/ VectorSearchAlternative
       \/ GetConceptContext
       \/ ToolRaises
       \/ Reason
       \/ ReasonRaises
       \/ StandardizeStep
       \/ StandardizeRaises
       \/ FinalizeStep
       \/ FinalizeRaises
       \/ ReturnCoded
    /\ UNCHANGED <<iouVars, resVars, noteVars, occVars, entVars, batchVars,
                   ctxVars, mainVars, analyzeVars, evalVars, stdVars>>

CoderSpecInit ==
    /\ CoderInit
    /\ IouIdle /\ ResIdle /\ NoteIdle /\ OccIdle /\ EntIdle /\ BatchIdle
    /\ CtxIdle /\ MainIdle /\ AnalyzeIdle /\ EvalIdle /\ StdIdle

SpecCoder == CoderSpecInit /\ [][CoderNext]_vars

OccNext ==
    /\ FindOccurrences
    /\ UNCHANGED <<iouVars, resVars, noteVars, coderVars, entVars,
                   batchVars, ctxVars, mainVars, analyzeVars, evalVars,
                   stdVars>>

OccSpecInit ==
    /\ OccInit
    /\ IouIdle /\ ResIdle /\ NoteIdle /\ CoderIdle /\ EntIdle /\ BatchIdle
    /\ CtxIdle /\ MainIdle /\ AnalyzeIdle /\ EvalIdle /\ StdIdle

SpecOccur == OccSpecInit /\ [][OccNext]_vars

EntNext ==
    /\ \/ ExtractEntities
       \/ ExtractEntitiesFails
    /\ UNCHANGED <<iouVars, resVars, noteVars, coderVars, occVars,
                   batchVars, ctxVars, mainVars, analyzeVars, evalVars,
                   stdVars>>

EntSpecInit ==
    /\ EntInit
    /\ IouIdle /\ ResIdle /\ NoteIdle /\ CoderIdle /\ OccIdle /\ BatchIdle
    /\ CtxIdle /\ MainIdle /\ AnalyzeIdle /\ EvalIdle /\ StdIdle

SpecEntities == EntSpecInit /\ [][EntNext]_vars

BatchNext ==
    /\ \/ ProcessNote
       \/ ProcessNoteFails
       \/ ReturnResults
    /\ UNCHANGED <<iouVars, resVars, noteVars, coderVars, occVars, entVars,
                   ctxVars, mainVars, analyzeVars, evalVars, stdVars>>

BatchSpecInit ==
    /\ BatchInit
    /\ IouIdle /\ ResIdle /\ NoteIdle /\ CoderIdle /\ OccIdle /\ EntIdle
    /\ CtxIdle /\ MainIdle /\ AnalyzeIdle /\ EvalIdle /\ StdIdle

SpecBatch == BatchSpecInit /\ [][BatchNext]_vars

CtxNext ==
    /\ \/ GetConceptIdsContext
       \/ GetConceptIdsContextRaises
       \/ GetConceptIdsContextAgain
    /\ UNCHANGED <<iouVars, resVars, noteVars, coderVars, occVars, entVars,
                   batchVars, mainVars, analyzeVars, evalVars, stdVars>>

CtxSpecInit ==
    /\ CtxInit
    /\ IouIdle /\ ResIdle /\ NoteIdle /\ CoderIdle /\ OccIdle /\ EntIdle
    /\ BatchIdle /\ MainIdle /\ AnalyzeIdle /\ EvalIdle /\ StdIdle

SpecContext == CtxSpecInit /\ [][CtxNext]_vars

MainNext ==
    /\ \/ LoadData
       \/ LoadDataFails
       \/ ExtractNote
       \/ RowKeyError
       \/ CreateSubmission
       \/ Evaluate
       \/ LoadAnnotationsFails
    /\ UNCHANGED <<iouVars, resVars, noteVars, coderVars, occVars, entVars,
                   batchVars, ctxVars, analyzeVars, evalVars, stdVars>>

MainSpecInit ==
    /\ MainInit
    /\ IouIdle /\ ResIdle /\ NoteIdle /\ CoderIdle /\ OccIdle /\ EntIdle
    /\ BatchIdle /\ CtxIdle /\ AnalyzeIdle /\ EvalIdle /\ StdIdle

SpecMain == MainSpecInit /\ [][MainNext]_vars

AnalyzeNext ==
    /\ \/ AnalyzeNote
       \/ ReturnAnalysis
    /\ UNCHANGED <<iouVars, resVars, noteVars, coderVars, occVars, entVars,
                   batchVars, ctxVars, mainVars, evalVars, stdVars>>

AnalyzeSpecInit ==
    /\ AnalyzeInit
    /\ IouIdle /\ ResIdle /\ NoteIdle /\ CoderIdle /\ OccIdle /\ EntIdle
    /\ BatchIdle /\ CtxIdle /\ MainIdle /\ EvalIdle /\ StdIdle

SpecAnalyze == AnalyzeSpecInit /\ [][AnalyzeNext]_vars

EvalNext ==
    /\ \/ EvaluateSubmission
       \/ EvaluateSubmissionFails
    /\ UNCHANGED <<iouVars, resVars, noteVars, coderVars, occVars, entVars,
                   batchVars, ctxVars, mainVars, analyzeVars, stdVars>>

EvalSpecInit ==
    /\ EvalInit
    /\ IouIdle /\ ResIdle /\ NoteIdle /\ CoderIdle /\ OccIdle /\ EntIdle
    /\ BatchIdle /\ CtxIdle /\ MainIdle /\ AnalyzeIdle /\ StdIdle

SpecEvaluate == EvalSpecInit /\ [][EvalNext]_vars

StdNext ==
    /\ \/ CoderStandardizes
       \/ ContextSubstitutes
    /\ UNCHANGED <<iouVars, resVars, noteVars, coderVars, occVars, entVars,
                   batchVars, ctxVars, mainVars, analyzeVars, evalVars>>

StdSpecInit ==
    /\ StdInit
    /\ IouIdle /\ ResIdle /\ NoteIdle /\ CoderIdle /\ OccIdle /\ EntIdle
    /\ BatchIdle /\ CtxIdle /\ MainIdle /\ AnalyzeIdle /\ EvalIdle

SpecStandard == StdSpecInit /\ [][StdNext]_vars

(***************************************************************************)
(* Claims                                                                  *)
(***************************************************************************)
\* The characters of the half-open range [start, end).
Chars(e) == {p \in 0..MaxPos : e.start <= p /\ p < e.end}

\* C1: no two distinct entries of the list _resolve_overlapping_spans
\* returns share a character of their [start, end) ranges.
C1_NoOverlap ==
    resPc = "done" =>
        \A i, j \in 1..Len(non_overlapping) :
            i # j => Chars(non_overlapping[i]) \cap Chars(non_overlapping[j]) = {}

\* Two candidates overlapped and the resolver discarded one of them.
C1_Witness ==
    /\ resPc = "done"
    /\ Len(entities) = 2
    /\ Len(non_overlapping) = 1
    /\ Chars(entities[1]) \cap Chars(entities[2]) # {}

\* Two spans overlap as intervals: each starts before the other ends.
Overlaps(a, b) == a.start < b.end /\ b.start < a.end
CountIn(e, s) == Cardinality({k \in DOMAIN s : s[k] = e})
IsKept(e) == \E k \in DOMAIN non_overlapping : non_overlapping[k] = e

\* C12: the list _resolve_overlapping_spans returns is a maximal
\* non-overlapping subset of the candidates: every kept span is a candidate,
\* kept no more often than it occurs among the candidates, and every candidate
\* that is not kept overlaps a kept span; when it has positive length it
\* shares a character with that kept span.
C12_MaximalSubset ==
    resPc = "done" =>
        /\ \A k \in DOMAIN non_overlapping :
               CountIn(non_overlapping[k], non_overlapping)
                   <= CountIn(non_overlapping[k], entities)
        /\ \A i \in DOMAIN entities :
               ~IsKept(entities[i]) =>
                   \E k \in DOMAIN non_overlapping :
                       /\ Overlaps(entities[i], non_overlapping[k])
                       /\ entities[i].start < entities[i].end =>
                              Chars(entities[i]) \cap Chars(non_overlapping[k]) # {}

\* Of two candidates of positive length the resolver kept one and discarded
\* the other.
C12_Witness ==
    /\ resPc = "done"
    /\ Len(entities) = 2
    /\ entities[1].start < entities[1].end
    /\ entities[2].start < entities[2].end
    /\ Len(non_overlapping) = 1
    /\ ~IsKept(entities[1])

C5_IouSymmetricBounded ==
    iouPc = "done" =>
        /\ RatEq(iouAB, iouBA)
        /\ RatLe(Zero, iouAB) /\ RatLe(iouAB, One)
        /\ (length(spanA) # 0 => RatEq(iouAA, One))

\* Two different overlapping spans of nonzero length have been compared, and
\* their IoU lies strictly between 0 and 1.
C5_Witness ==
    /\ iouPc = "done"
    /\ spanA # spanB
    /\ length(spanA) > 0
    /\ RatLt(Zero, iouAB) /\ RatLt(iouAB, One)

(***************************************************************************)
(* Claims about _analyze_note_spans                                        *)
(***************************************************************************)
\* The comparisons that refer to the agent span (gold span) at an index.
CompsOfAgent(a) == {k \in 1..Len(comparisons) : comparisons[k].agent_span = a}
CompsOfGold(g) == {k \in 1..Len(comparisons) : comparisons[k].gold_span = g}
Matched(k) == comparisons[k].agent_span # NoSpan /\ comparisons[k].gold_span # NoSpan

\* C2: no comparison has both agent_span and gold_span null, and no predicted
\* span and no gold span occurs in more than one comparison with iou_score > 0.
C2_MatchingSound ==
    /\ \A k \in 1..Len(comparisons) :
           ~(comparisons[k].agent_span = NoSpan /\ comparisons[k].gold_span = NoSpan)
    /\ \A a \in 1..Len(agent_spans) :
           Cardinality({k \in CompsOfAgent(a) :
                           RatLt(Zero, comparisons[k].iou_score)}) <= 1
    /\ \A g \in 1..Len(gold_spans) :
           Cardinality({k \in CompsOfGold(g) :
                           RatLt(Zero, comparisons[k].iou_score)}) <= 1

\* Two identical predicted spans met two gold spans they overlap: each gold
\* span was matched once.
C2_Witness ==
    /\ notePc = "done"
    /\ Len(agent_spans) = 2 /\ agent_spans[1] = agent_spans[2]
    /\ Len(gold_spans) = 2
    /\ Matched(1) /\ Matched(2)
    /\ comparisons[1].gold_span # comparisons[2].gold_span

\* The gold spans of the note not yet matched, and the highest IoU between
\* the agent span and one of them.
Unmatched == {j \in 1..Len(gold_spans) : j \notin matched_gold_indices}
IouOf(j) == iou_with(agent_spans[agentIdx], gold_spans[j])
IsHighest(j) == j \in Unmatched /\ \A x \in Unmatched : RatLe(IouOf(x), IouOf(j))

\* The step matched the agent span at agentIdx to gold span j: both are marked
\* used and one comparison for the pair is appended.
MatchedTo(j) ==
    /\ matched_agent_indices' = matched_agent_indices \cup {agentIdx}
    /\ matched_gold_indices' = matched_gold_indices \cup {j}
    /\ Len(comparisons') = Len(comparisons) + 1
    /\ comparisons'[Len(comparisons')].agent_span = agentIdx
    /\ comparisons'[Len(comparisons')].gold_span = j

LeftUnmatched ==
    UNCHANGED <<matched_agent_indices, matched_gold_indices, comparisons>>

InMatchLoop == notePc = "match" /\ agentIdx <= Len(agent_spans)

\* C8 as stated: for every threshold, with M the highest IoU between the
\* predicted span and the unmatched gold spans, the span is matched to a gold
\* span attaining M if M >= iou_threshold, and is left unmatched otherwise.
C8_AsStated ==
    [][InMatchLoop =>
          IF \E j \in Unmatched : IsHighest(j) /\ RatLe(iou_threshold, IouOf(j))
          THEN \E j \in Unmatched : IsHighest(j) /\ MatchedTo(j)
          ELSE LeftUnmatched]_vars

\* C8 amended: the span is matched if M >= iou_threshold and M > 0, to the
\* first unmatched gold span, in input order, that attains M; it is left
\* unmatched otherwise, also when no gold span is left.
C8_BestMatchPositive ==
    [][InMatchLoop =>
          IF \E j \in Unmatched : /\ IsHighest(j)
                                  /\ RatLe(iou_threshold, IouOf(j))
                                  /\ RatLt(Zero, IouOf(j))
          THEN \E j \in Unmatched :
                  /\ IsHighest(j)
                  /\ \A x \in Unmatched : IsHighest(x) => j <= x
                  /\ MatchedTo(j)
          ELSE LeftUnmatched]_vars

\* Under threshold 0 a predicted span met one gold span it does not overlap
\* and stayed unmatched; under another threshold a predicted span was matched
\* to the second of two gold spans, the one with the higher IoU.
C8_Witness ==
    /\ notePc = "done"
    /\ \/ /\ iou_threshold = Zero
          /\ Len(agent_spans) = 1 /\ Len(gold_spans) = 1
          /\ matched_agent_indices = {}
       \/ /\ Len(gold_spans) = 2
          /\ Len(comparisons) > 0
          /\ comparisons[1].agent_span = 1 /\ comparisons[1].gold_span = 2
          /\ RatLt(Zero, iou_with(agent_spans[1], gold_spans[1]))

C10_Unmatched ==
    notePc = "done" =>
        /\ \A a \in 1..Len(agent_spans) :
               a \notin matched_agent_indices =>
                   /\ Cardinality(CompsOfAgent(a)) = 1
                   /\ \A k \in CompsOfAgent(a) :
                          /\ comparisons[k].overlap_type = "no_overlap"
                          /\ comparisons[k].gold_span = NoSpan
                          /\ RatEq(comparisons[k].iou_score, Zero)
        /\ \A g \in 1..Len(gold_spans) :
               g \notin matched_gold_indices =>
                   /\ Cardinality(CompsOfGold(g)) = 1
                   /\ \A k \in CompsOfGold(g) :
                          /\ comparisons[k].overlap_type = "no_overlap"
                          /\ comparisons[k].agent_span = NoSpan
        /\ agent_spans = <<>> =>
               /\ stats.gold_only_spans = Len(gold_spans)
               /\ stats.exact_matches = 0

\* A note ended with one predicted span matched, one predicted span left
\* unmatched and one gold span left unmatched.
C10_Witness ==
    /\ notePc = "done"
    /\ Len(agent_spans) = 2 /\ Len(gold_spans) = 2
    /\ Cardinality(matched_agent_indices) = 1
    /\ Cardinality(matched_gold_indices) = 1
    /\ stats.agent_only_spans = 1 /\ stats.gold_only_spans = 1

\* The predicted spans are the gold spans in some order: spans of positive
\* length, no two gold spans with the same range.
SameSpans ==
    /\ Len(agent_spans) = Len(gold_spans)
    /\ \A g \in DOMAIN gold_spans : gold_spans[g].start < gold_spans[g].end
    /\ \A g, h \in DOMAIN gold_spans :
           (gold_spans[g].start = gold_spans[h].start
            /\ gold_spans[g].end = gold_spans[h].end) => g = h
    /\ \A g \in DOMAIN gold_spans : \E a \in DOMAIN agent_spans :
           agent_spans[a] = gold_spans[g]

\* C11: when the predicted spans of a note are exactly its gold spans
\* (positive length, pairwise distinct ranges) and iou_threshold <= 1, the
\* analysis ends with one comparison per span, each EXACT_MATCH of a span
\* with its equal and with iou_score 1.0, and with agent_only_spans =
\* gold_only_spans = 0.
C11_IdenticalSpans ==
    (notePc = "done" /\ SameSpans /\ RatLe(iou_threshold, One)) =>
        /\ Len(comparisons) = Len(gold_spans)
        /\ \A k \in DOMAIN comparisons :
               /\ comparisons[k].overlap_type = "exact_match"
               /\ Matched(k)
               /\ agent_spans[comparisons[k].agent_span] =
                      gold_spans[comparisons[k].gold_span]
               /\ RatEq(comparisons[k].iou_score, One)
        /\ stats.exact_matches = Len(gold_spans)
        /\ stats.agent_only_spans = 0
        /\ stats.gold_only_spans = 0

\* A note ended whose two predicted spans are its two gold spans in the
\* other order, overlapping each other, analysed with threshold 1.0.
C11_Witness ==
    /\ notePc = "done" /\ SameSpans
    /\ RatEq(iou_threshold, One)
    /\ Len(gold_spans) = 2
    /\ agent_spans[1] = gold_spans[2]
    /\ overlaps_with(gold_spans[1], gold_spans[2])
    /\ Len(comparisons) = 2

(***************************************************************************)
(* Claims about _find_all_mention_occurrences                              *)
(***************************************************************************)
\* s lower-cased, every run of whitespace replaced by one space.
RECURSIVE Norm(_)
Norm(s) ==
    IF s = <<>> THEN <<>>
    ELSE IF Head(s) \in Whitespace
    THEN <<" ">> \o Norm(SubSeq(s, 1 + WsRun(s, 0), Len(s)))
    ELSE <<Lower(Head(s))>> \o Norm(Tail(s))

\* text[b:e] is the mention up to case and up to the length and kind of its
\* whitespace runs.
SameUpToWhitespace(b, e) ==
    /\ b < e
    /\ Norm(SubSeq(occ_text, b + 1, e)) = Norm(mention_str)

\* The positions at which a match of the first n characters of the mention
\* that starts at b can end: a space of the mention takes one or more
\* whitespace characters, any other character takes itself in either case.
RECURSIVE EndsOf(_, _)
EndsOf(n, b) ==
    IF n = 0 THEN {b}
    ELSE IF mention_str[n] = " "
    THEN {q \in 0..Len(occ_text) :
             \E p \in EndsOf(n - 1, b) :
                 p < q /\ \A r \in (p + 1)..q : occ_text[r] \in Whitespace}
    ELSE {p + 1 : p \in {x \in EndsOf(n - 1, b) :
                            /\ x < Len(occ_text)
                            /\ Lower(occ_text[x + 1]) = Lower(mention_str[n])}}

IsMatch(b, e) == e \in EndsOf(Len(mention_str), b)
Found(b, e) == \E k \in DOMAIN occurrences : occurrences[k] = <<b, e>>
OverlapsFound(b, e) ==
    \E k \in DOMAIN occurrences : occurrences[k][1] < e /\ b < occurrences[k][2]

\* C14 as stated: the result holds the occurrences of the mention, compared
\* case-insensitively with any run of whitespace in the mention matching any
\* run of whitespace in the text: every returned range is such an occurrence,
\* and every such occurrence is returned or overlaps a returned one (for a
\* mention of at least one character).
C14_AsStated ==
    (occPc = "done" /\ mention_str # <<>>) =>
        /\ \A k \in DOMAIN occurrences :
               SameUpToWhitespace(occurrences[k][1], occurrences[k][2])
        /\ \A b, e \in 0..Len(occ_text) :
               SameUpToWhitespace(b, e) => (Found(b, e) \/ OverlapsFound(b, e))

\* C14 amended: each space of the mention matches one or more whitespace
\* characters and every other character, tab and newline included, matches
\* itself in either case.  The result lists matches from left to right,
\* none overlapping another; every match is returned or overlaps a returned
\* one.
C14_LeftmostMatches ==
    occPc = "done" =>
        /\ \A k \in DOMAIN occurrences : IsMatch(occurrences[k][1], occurrences[k][2])
        /\ \A k \in DOMAIN occurrences :
               k < Len(occurrences) =>
                   /\ occurrences[k][2] <= occurrences[k + 1][1]
                   /\ occurrences[k][1] < occurrences[k + 1][1]
        /\ \A b, e \in 0..Len(occ_text) :
               IsMatch(b, e) => (Found(b, e) \/ OverlapsFound(b, e))

\* A mention with a single space found in a text where a newline separates
\* the two letters, one of them in the other case.
C14_Witness ==
    /\ occPc = "done"
    /\ mention_str = <<"a", " ", "a">>
    /\ occ_text = <<"A", "\n", "a">>
    /\ occurrences = <<<<0, 3>>>>

Translatable(i) ==
    /\ i \notin failed_lookups
    /\ vocabulary[SqlNumber(ent_concepts[i].concept_id)] \in {"SNOMED", "SNOMEDCT_US"}

OccurrencesOf(i) == find_all_mention_occurrences(ent_text, ent_concepts[i].mention_str)

\* Entity e is the occurrence occ of the concept at index i.
IsEntityOf(e, i, occ) ==
    /\ e.start = occ[1] /\ e.end = occ[2]
    /\ e.omop_concept_id = PyInt(SqlNumber(ent_concepts[i].concept_id))
    /\ e.concept_id = PyInt(SqlNumber(ent_concepts[i].concept_id) + MaxConceptId)

RECURSIVE TranslatableOccurrences(_)
TranslatableOccurrences(i) ==
    IF i = 0 THEN 0
    ELSE TranslatableOccurrences(i - 1)
         + (IF Translatable(i) THEN Len(OccurrencesOf(i)) ELSE 0)

\* C16: when extract_entities returns, the candidates are exactly the
\* occurrences of the translatable concepts: a concept without a SNOMED code
\* (no row, another vocabulary, a failing lookup) or without an occurrence
\* contributes none and raises nothing, and every occurrence of every other
\* concept is a candidate.
C16_UntranslatableSkipped ==
    entPc = "returned" =>
        /\ \A k \in DOMAIN competition_entities :
               \E i \in DOMAIN ent_concepts :
                   /\ Translatable(i)
                   /\ \E j \in DOMAIN OccurrencesOf(i) :
                          IsEntityOf(competition_entities[k], i, OccurrencesOf(i)[j])
        /\ \A i \in DOMAIN ent_concepts :
               Translatable(i) =>
                   \A j \in DOMAIN OccurrencesOf(i) :
                       \E k \in DOMAIN competition_entities :
                           IsEntityOf(competition_entities[k], i, OccurrencesOf(i)[j])
        /\ Len(competition_entities) = TranslatableOccurrences(Len(ent_concepts))

\* A concept of another vocabulary whose mention occurs in the text, before a
\* SNOMED concept whose occurrence is a candidate; and a concept whose lookup
\* fails, next to a SNOMED concept without an occurrence.
C16_Witness ==
    /\ entPc = "returned"
    /\ Len(ent_concepts) = 2
    /\ \/ /\ vocabulary[SqlNumber(ent_concepts[1].concept_id)] = "RxNorm"
          /\ OccurrencesOf(1) # <<>>
          /\ Translatable(2)
          /\ Len(competition_entities) = Len(OccurrencesOf(2))
          /\ competition_entities # <<>>
       \/ /\ 1 \in failed_lookups
          /\ vocabulary[SqlNumber(ent_concepts[1].concept_id)] = "SNOMED"
          /\ Translatable(2)
          /\ OccurrencesOf(2) = <<>>
          /\ competition_entities = <<>>

\* C18 as stated: when the extraction of a document fails, the document's
\* log is still handed to extract_entities and persisted in the reports
\* directory.
C18_AsStated ==
    (entPc = "failed" /\ reports_dir # None) => report_saved

(***************************************************************************)
(* Claims about process_notes                                              *)
(***************************************************************************)
\* The positions of the attempted notes whose extraction did not fail.
RECURSIVE Survivors(_)
Survivors(n) ==
    IF n = 0 THEN <<>>
    ELSE IF outcomes[n].raised THEN Survivors(n - 1)
         ELSE Append(Survivors(n - 1), n)

\* C19: every note of the batch is attempted, in order; a note whose
\* extraction failed has no row in the results; and the results are those of
\* the batch without the failed notes.
C19_FailureIsolated ==
    /\ Len(outcomes) = batch_idx - 1
    /\ batch_idx <= Len(notes_df) + 1
    /\ batchPc = "done" => Len(outcomes) = Len(notes_df)
    /\ \A i \in DOMAIN outcomes :
           outcomes[i].raised =>
               \A k \in DOMAIN results : results[k].note_id # notes_df[i]
    /\ LET kept == Survivors(Len(outcomes))
       IN  results = process_notes([k \in DOMAIN kept |-> notes_df[kept[k]]],
                                   [k \in DOMAIN kept |-> outcomes[kept[k]]])

\* A batch whose first note failed with entities already built and whose
\* second note produced rows.
C19_Witness ==
    /\ batchPc = "done"
    /\ Len(notes_df) = 2
    /\ outcomes[1].raised /\ outcomes[1].entities # <<>>
    /\ ~outcomes[2].raised /\ Len(outcomes[2].entities) = 2
    /\ Len(results) = 2
    /\ \A k \in DOMAIN results : results[k].note_id = notes_df[2]

(***************************************************************************)
(* Claims about get_concept_ids_context and get_hits_context               *)
(***************************************************************************)
\* The id text holds a character that is neither a digit nor a blank.
NonNumeric(id) ==
    \E k \in DOMAIN id[2] :
        id[2][k] # " " /\ \A v \in 0..9 : DigitChars[v + 1] # id[2][k]

\* C20 as stated: called with an empty id list or with a list holding a
\* non-numeric id, get_concept_ids_context returns an empty collection and
\* does not raise; so get_hits_context does not raise on a search without
\* hits.
C20_AsStated ==
    (/\ ctxPc \in {"returned", "returned again", "raised"}
     /\ \/ ctx_concept_ids = <<>>
        \/ \E k \in DOMAIN ctx_concept_ids : NonNumeric(ctx_concept_ids[k]))
    => (/\ ctxPc \in {"returned", "returned again"}
        /\ collection.concepts = <<>>
        /\ collection.total_count = 0)

\* The input holds only texts of ids with a concept row, written as str()
\* writes them, and no id has two 'Maps to' rows.
PlainInput ==
    /\ \A k \in DOMAIN ctx_concept_ids :
           \E n \in ConceptIds : ctx_concept_ids[k] = PyStr(Decimal(n))
    /\ \A r1, r2 \in ctx_maps_to : r1[1] = r2[1] => r1 = r2

\* The id get_concept_ids_context is to use for the input id: the target of
\* its 'Maps to' row, or the id itself.
StandardOf(id) ==
    IF \E r \in ctx_maps_to : r[1] = SqlNumber(id)
    THEN PyStr(Decimal((CHOOSE r \in ctx_maps_to : r[1] = SqlNumber(id))[2]))
    ELSE id

\* The distinct elements of a list, in first-seen order.
RECURSIVE FirstSeen(_)
FirstSeen(q) ==
    IF q = <<>> THEN <<>>
    ELSE LET rest == FirstSeen(SubSeq(q, 1, Len(q) - 1))
         IN  IF \E k \in DOMAIN rest : rest[k] = q[Len(q)] THEN rest
             ELSE Append(rest, q[Len(q)])

\* C21 as stated, for plain inputs: the concepts returned are those of the
\* substituted ids, one per distinct id, in the first-seen order of those
\* ids in the input list, and total_count is their number.
C21_AsStated ==
    (ctxPc = "returned" /\ PlainInput) =>
        LET expected == FirstSeen([k \in DOMAIN ctx_concept_ids |->
                                      StandardOf(ctx_concept_ids[k])])
        IN  /\ Len(collection.concepts) = Len(expected)
            /\ \A k \in DOMAIN expected :
                   collection.concepts[k].concept_id = expected[k]
            /\ collection.total_count = Len(collection.concepts)

\* The elements of a list of related concepts.
Related(x) == {x[k] : k \in DOMAIN x}

\* The concepts of a collection, the order of the rows left aside.
ConceptSet(c) ==
    {[concept_id |-> c.concepts[k].concept_id,
      parents |-> Related(c.concepts[k].parent_concepts),
      children |-> Related(c.concepts[k].child_concepts)] : k \in DOMAIN c.concepts}

\* No id has two 'Maps to' rows.
SingleMappings == \A r1, r2 \in ctx_maps_to : r1[1] = r2[1] => r1 = r2

MalformedInput ==
    \/ ~(NotesColumns \subseteq notes_columns)
    \/ /\ evaluate_flag
       /\ \/ ~(AnnotationColumns \subseteq annotation_columns)
          \/ annotation_orphan

\* C23 as stated: malformed input is detected before any note is processed:
\* no extraction starts in a run on malformed input.
C23_AsStated ==
    MalformedInput => extractions = 0

(***************************************************************************)
(* Claims about analyze_spans                                              *)
(***************************************************************************)
\* How many entries of a sequence satisfy a test.
CountOf(seq, Test(_)) == Len(SelectSeq(seq, Test))

SumOfMatched(st) ==
    st.exact_matches + st.partial_overlaps + st.concept_mismatches

\* C24: span conservation in analyze_spans.  Once every note is analysed,
\* every predicted span and every gold span appears in exactly one
\* comparison (counted with multiplicity: a span value occurs in as many
\* comparisons as in its input list); for every note and in the aggregate,
\* exact + partial + mismatch + agent_only is the number of predicted spans
\* and exact + partial + mismatch + gold_only is the number of gold spans;
\* and a comparison with both spans pairs spans of the same note_id.
C24_SpanConservation ==
    /\ \A k \in DOMAIN by_note_id :
           LET s == by_note_id[k].note_stats
           IN  /\ s.agent_span_count
                      = Len(ByNote(an_agent_spans, by_note_id[k].note_id))
               /\ s.gold_span_count
                      = Len(ByNote(an_gold_spans, by_note_id[k].note_id))
               /\ SumOfMatched(s.stats) + s.stats.agent_only_spans = s.agent_span_count
               /\ SumOfMatched(s.stats) + s.stats.gold_only_spans = s.gold_span_count
    /\ \A k \in DOMAIN an_comparisons :
           /\ an_comparisons[k].agent_span # <<>> \/ an_comparisons[k].gold_span # <<>>
           /\ (an_comparisons[k].agent_span # <<>> /\ an_comparisons[k].gold_span # <<>>)
                  => an_comparisons[k].agent_span[1].note_id
                         = an_comparisons[k].gold_span[1].note_id
    /\ pending_notes = {} =>
           /\ SumOfMatched(an_stats) + an_stats.agent_only_spans = Len(an_agent_spans)
           /\ SumOfMatched(an_stats) + an_stats.gold_only_spans = Len(an_gold_spans)
           /\ \A v \in AnalyzerSpans :
                  /\ CountOf(an_comparisons, LAMBDA c : c.agent_span = <<v>>)
                         = CountOf(an_agent_spans, LAMBDA sp : sp = v)
                  /\ CountOf(an_comparisons, LAMBDA c : c.gold_span = <<v>>)
                         = CountOf(an_gold_spans, LAMBDA sp : sp = v)

\* Two notes are analysed; one has a matched pair, and there are an
\* unmatched predicted span and an unmatched gold span.
C24_Witness ==
    /\ anPc = "done"
    /\ Len(by_note_id) = 2
    /\ SumOfMatched(an_stats) >= 1
    /\ an_stats.agent_only_spans >= 1
    /\ an_stats.gold_only_spans >= 1

(***************************************************************************)
(* Claims about the matching loop of _analyze_note_spans                   *)
(***************************************************************************)
\* The agent span about to be processed has start < end, the threshold is
\* at most 1 and a still-unmatched gold span is identical to it.
IdenticalGoldAvailable ==
    /\ notePc = "match"
    /\ agentIdx <= Len(agent_spans)
    /\ RatLe(iou_threshold, <<1, 1>>)
    /\ agent_spans[agentIdx].start < agent_spans[agentIdx].end
    /\ \E j \in DOMAIN gold_spans :
           /\ j \notin matched_gold_indices
           /\ gold_spans[j] = agent_spans[agentIdx]

\* The still-unmatched gold spans with the boundaries of the agent span
\* about to be processed.
SameBoundaries ==
    {j \in DOMAIN gold_spans :
        /\ j \notin matched_gold_indices
        /\ gold_spans[j].start = agent_spans[agentIdx].start
        /\ gold_spans[j].end = agent_spans[agentIdx].end}

\* C25 as stated: a predicted span with an identical still-unmatched gold
\* span is classified EXACT_MATCH.
C25_AsStated ==
    [][(MatchAgentSpan /\ IdenticalGoldAvailable) =>
           /\ Len(comparisons') = Len(comparisons) + 1
           /\ comparisons'[Len(comparisons')].agent_span = agentIdx
           /\ comparisons'[Len(comparisons')].overlap_type = "exact_match"]_vars

\* C25: a predicted span with an identical still-unmatched gold span is
\* matched, with IoU 1, to the first still-unmatched gold span that has
\* its boundaries; it is EXACT_MATCH when that gold span has its concept id
\* and CONCEPT_MISMATCH otherwise.
C25_FirstSameBoundaries ==
    [][(MatchAgentSpan /\ IdenticalGoldAvailable) =>
           LET first == CHOOSE j \in SameBoundaries : \A i \in SameBoundaries : j <= i
               last == comparisons'[Len(comparisons')]
           IN  /\ Len(comparisons') = Len(comparisons) + 1
               /\ last.agent_span = agentIdx
               /\ last.gold_span = first
               /\ RatEq(last.iou_score, <<1, 1>>)
               /\ last.overlap_type =
                      IF gold_spans[first].concept_id = agent_spans[agentIdx].concept_id
                      THEN "exact_match" ELSE "concept_mismatch"]_vars

\* A predicted span was paired with a gold span of another concept while an
\* identical gold span is still unmatched.
C25_Witness ==
    /\ notePc = "match"
    /\ comparisons # <<>>
    /\ LET last == comparisons[Len(comparisons)]
       IN  /\ last.overlap_type = "concept_mismatch"
           /\ RatLe(iou_threshold, <<1, 1>>)
           /\ \E j \in DOMAIN gold_spans :
                  /\ j \notin matched_gold_indices
                  /\ gold_spans[j] = agent_spans[last.agent_span]

\* SpanAnalyzer._generate_comparison_notes (lines 356-370): the first note
\* of a matched comparison, without the values it interpolates.  (The
\* second note of a partial overlap compares the texts of the spans, which
\* the spans of this model do not carry.)
generate_comparison_notes(agent_span, gold_span, overlap_type) ==
    IF overlap_type = "exact_match"
    THEN <<"Perfect match: same span boundaries and concept">>
    ELSE IF overlap_type = "concept_mismatch"
    THEN <<"Span boundaries match but concept differs">>
    ELSE IF overlap_type = "partial_overlap"
    THEN <<"Partial overlap">>
    ELSE <<>>

\* C26 as stated: a comparison classified CONCEPT_MISMATCH, whose note
\* reads 'Span boundaries match but concept differs', pairs an agent span
\* and a gold span with the same start and end and different concept ids.
C26_AsStated ==
    \A k \in 1..Len(comparisons) :
        Matched(k) =>
            LET a == agent_spans[comparisons[k].agent_span]
                g == gold_spans[comparisons[k].gold_span]
            IN  (/\ comparisons[k].overlap_type = "concept_mismatch"
                 /\ generate_comparison_notes(a, g, comparisons[k].overlap_type)
                        = <<"Span boundaries match but concept differs">>)
                    => /\ a.start = g.start
                       /\ a.end = g.end
                       /\ a.concept_id # g.concept_id

(***************************************************************************)
(* Claims about the order of the candidates of _resolve_overlapping_spans  *)
(***************************************************************************)
\* Every reordering of a list.
PermutationsOf(s) ==
    {[k \in DOMAIN s |-> s[f[k]]] :
        f \in {g \in [DOMAIN s -> DOMAIN s] : \A i, j \in DOMAIN s : g[i] = g[j] => i = j}}

Triples(s) == {<<s[k].start, s[k].end, s[k].concept_id>> : k \in DOMAIN s}

RangesOf(s) == {<<s[k].start, s[k].end>> : k \in DOMAIN s}

\* The first candidate of a list that has the range of e.
FirstWithRange(s, e) ==
    s[CHOOSE k \in DOMAIN s :
          /\ s[k].start = e.start /\ s[k].end = e.end
          /\ \A j \in 1..(k - 1) : ~(s[j].start = e.start /\ s[j].end = e.end)]

C28_AsStated ==
    evalPc = "returned" =>
        /\ metrics.total_matches <= metrics.total_predictions
        /\ metrics.total_matches <= metrics.total_ground_truth
        /\ RatLe(Zero, metrics.precision) /\ RatLe(metrics.precision, <<1, 1>>)
        /\ RatLe(Zero, metrics.recall) /\ RatLe(metrics.recall, <<1, 1>>)

(***************************************************************************)
(* Claims about the two 'Maps to' lookups                                  *)
(***************************************************************************)
\* Both lookups were made for the concept id.
BothStandardized == std_picked # <<>> /\ std_final # <<>>

\* The 'Maps to' rows of the concept id.
MapsToRowsOfId == {r \in std_maps_to : r[1] = SqlNumber(std_concept_id)}

\* C29 as stated: the id the STANDARDIZE step chooses is the id that
\* get_concept_ids_context substitutes, whatever the number of 'Maps to'
\* rows.
C29_AsStated ==
    BothStandardized => ToStr(std_picked[1]) = std_final[1]

\* C29: for a concept id written as str() writes it and with at most one
\* 'Maps to' row, the id the STANDARDIZE step chooses is the id that
\* get_concept_ids_context substitutes (the target of the row, or the id
\* itself without a row); with several rows each of the two is the target
\* of one of the rows, one hop away.
C29_SameForOneRow ==
    BothStandardized =>
        /\ (/\ Cardinality(MapsToRowsOfId) <= 1
            /\ std_concept_id = PyStr(Decimal(SqlNumber(std_concept_id))))
               => ToStr(std_picked[1]) = std_final[1]
        /\ MapsToRowsOfId # {} =>
               \E r \in MapsToRowsOfId : std_picked[1] = PyInt(r[2])
        /\ (/\ MapsToRowsOfId # {}
            /\ std_concept_id = PyStr(Decimal(SqlNumber(std_concept_id))))
               => \E r \in MapsToRowsOfId : std_final[1] = PyStr(Decimal(r[2]))
        /\ MapsToRowsOfId = {} =>
               std_picked[1] = std_concept_id /\ std_final[1] = std_concept_id

\* Both lookups followed the single 'Maps to' row of the id to another id.
C29_Witness ==
    /\ BothStandardized
    /\ Cardinality(MapsToRowsOfId) = 1
    /\ std_final[1] # std_concept_id
    /\ ToStr(std_picked[1]) = std_final[1]

(***************************************************************************)
(* Claims about the negated flag                                           *)
(***************************************************************************)
\* The coded concepts with their negated flags replaced.
WithNegated(concepts, flags) ==
    [k \in DOMAIN concepts |-> [concepts[k] EXCEPT !.negated = flags[k]]]

\* C30: the spans emitted by extract_entities do not depend on the negated
\* flags: a run whose coded concepts differ from those of this run only in
\* their negated values emits the same spans.
C30_NegatedIgnored ==
    entPc = "returned" =>
        \A flags \in [DOMAIN ent_concepts -> BOOLEAN] :
            PopOmopConceptId(resolve_overlapping_spans(
                CollectEntities(ent_text, WithNegated(ent_concepts, flags),
                                vocabulary, failed_lookups, 1))) = emitted

\* A negated concept was coded and its mention is reported as a span.
C30_Witness ==
    /\ entPc = "returned"
    /\ Len(ent_concepts) = 1
    /\ ent_concepts[1].negated
    /\ emitted # <<>>

(***************************************************************************)
(* Claims about extract_and_code_mentions, code_mention and the logger     *)
(***************************************************************************)
StepTypes(steps) == [k \in DOMAIN steps |-> steps[k].step_type]
StepOfType(ml, step_type) ==
    ml.steps[CHOOSE k \in DOMAIN ml.steps : ml.steps[k].step_type = step_type]
CompletedLogs == {logger.mention_logs[k] : k \in DOMAIN logger.mention_logs}
HasMapsToRow(s) == \E r \in maps_to : r[1] = SqlNumber(s)
DistinctOf(ms) == {ms[k] : k \in DOMAIN ms}
ReasonedIdOf(ml) == StepOfType(ml, "agent_reasoning").data[1]
MappingOf(ml) == StepOfType(ml, "concept_mapping").data

\* C3 as stated: for the coded concept C of a completed mention whose
\* reasoning step selected the id s: if the Concept Store holds a 'Maps to'
\* row from int(s), C.concept_id is the string form of the target of such a
\* row and the concept_mapping step records mapping_found = TRUE; otherwise
\* C.concept_id equals s and the step records mapping_found = FALSE and
\* final_concept_id = s.
C3_AsStated ==
    \A ml \in CompletedLogs :
        LET s == ReasonedIdOf(ml)
            C == ml.final_result[1]
        IN  IF HasMapsToRow(s)
            THEN /\ \E r \in maps_to :
                        r[1] = SqlNumber(s) /\ C.concept_id = ToStr(PyInt(r[2]))
                 /\ MappingOf(ml)[3] = TRUE
            ELSE /\ C.concept_id = s
                 /\ MappingOf(ml)[3] = FALSE
                 /\ MappingOf(ml)[2] = s

\* C3 amended: as above, except that without a 'Maps to' row C.concept_id is
\* the decimal text of the id that s writes, which is s itself exactly when s
\* is written that way.
C3_Standardized ==
    \A ml \in CompletedLogs :
        LET s == ReasonedIdOf(ml)
            C == ml.final_result[1]
        IN  IF HasMapsToRow(s)
            THEN /\ \E r \in maps_to :
                        r[1] = SqlNumber(s) /\ C.concept_id = ToStr(PyInt(r[2]))
                 /\ MappingOf(ml)[3] = TRUE
            ELSE /\ C.concept_id = PyStr(Decimal(SqlNumber(s)))
                 /\ MappingOf(ml)[3] = FALSE
                 /\ MappingOf(ml)[2] = s

\* A returned run with one concept standardized to a different id and one
\* concept without a mapping whose id the reasoning step wrote after a blank.
C3_Witness ==
    /\ pc = "returned"
    /\ \E ml \in CompletedLogs :
           /\ HasMapsToRow(ReasonedIdOf(ml))
           /\ ml.final_result[1].concept_id # ReasonedIdOf(ml)
           /\ SqlNumber(ml.final_result[1].concept_id) # SqlNumber(ReasonedIdOf(ml))
    /\ \E ml \in CompletedLogs :
           /\ ~HasMapsToRow(ReasonedIdOf(ml))
           /\ ReasonedIdOf(ml) # PyStr(Decimal(SqlNumber(ReasonedIdOf(ml))))

\* C4: code_mention is called at most once per distinct mention string, only
\* for strings the extractor returned; when extract_and_code_mentions
\* returns it has been called exactly once for each distinct string, and the
\* returned list, the mention logs and the final_results of the log each
\* count as many entries as there are distinct strings.
C4_OncePerDistinctMention ==
    /\ \A i, j \in DOMAIN code_mention_calls :
           code_mention_calls[i] = code_mention_calls[j] => i = j
    /\ DistinctOf(code_mention_calls) \subseteq DistinctOf(mentions)
    /\ pc = "returned" =>
           /\ DistinctOf(code_mention_calls) = DistinctOf(mentions)
           /\ Len(coded_concepts) = Cardinality(DistinctOf(mentions))
           /\ Len(logger.mention_logs) = Cardinality(DistinctOf(mentions))
           /\ Len(logger.final_results) = Cardinality(DistinctOf(mentions))

\* A returned run whose extractor output repeated a mention.
C4_Witness ==
    /\ pc = "returned"
    /\ Len(mentions) = 2
    /\ mentions[1] = mentions[2]
    /\ Len(coded_concepts) = 1

ToolsInvokedFor(m) ==
    LET mine == SelectSeq(tool_invocations, LAMBDA t : t.mention = m)
    IN  [k \in DOMAIN mine |-> mine[k].tool]

\* C6: the steps of a completed MentionCodingLog are, in order, one
\* initial_vector_search, one step per tool invocation made for that mention
\* in invocation order, one agent_reasoning, one concept_mapping and one
\* final_concept_retrieval; every step of a MentionCodingLog, completed or
\* current, was emitted while coding that log's mention.
C6_StepOrder ==
    /\ \A ml \in CompletedLogs :
           /\ StepTypes(ml.steps) =
                  <<"initial_vector_search">> \o ToolsInvokedFor(ml.mention)
                  \o <<"agent_reasoning", "concept_mapping",
                       "final_concept_retrieval">>
           /\ \A k \in DOMAIN ml.steps : ml.steps[k].emitter = ml.mention
    /\ \A c \in DOMAIN logger.current_mention_log :
           \A k \in DOMAIN logger.current_mention_log[c].steps :
               logger.current_mention_log[c].steps[k].emitter =
                   logger.current_mention_log[c].mention

\* Two completed mentions, one of which used both tools.
C6_Witness ==
    /\ Len(logger.mention_logs) = 2
    /\ \E ml \in CompletedLogs :
           ToolsInvokedFor(ml.mention) =
               <<"concept_context", "alternative_vector_search">>

\* The steps held by the first n mention logs, list after list.
RECURSIVE MentionLogSteps(_)
MentionLogSteps(n) ==
    IF n = 0 THEN <<>>
    ELSE MentionLogSteps(n - 1) \o logger.mention_logs[n].steps

\* Every entry of every list of steps the logger holds: the top-level steps,
\* the steps of the mention logs, the steps of the current mention log.
HeldSteps ==
    logger.steps \o MentionLogSteps(Len(logger.mention_logs))
    \o (IF logger.current_mention_log # <<>>
        THEN logger.current_mention_log[1].steps ELSE <<>>)

CurrentMention == code_mention_calls[Len(code_mention_calls)]

\* The steps of the four stages of code_mention.
StageTypes ==
    {"initial_vector_search", "agent_reasoning", "concept_mapping",
     "final_concept_retrieval"}

\* After a raise in code_mention: the mention has no FullCodedConcept and no
\* finished mention log, it was given to code_mention once, no stage was
\* logged twice, and the log was not finalized.
RaisedState ==
    /\ ~logger.finalized
    /\ code_mention_calls # <<>> =>
           /\ \A k \in DOMAIN coded_concepts :
                  coded_concepts[k].mention_str # CurrentMention
           /\ \A k \in DOMAIN logger.mention_logs :
                  logger.mention_logs[k].mention # CurrentMention
           /\ Cardinality({k \in DOMAIN code_mention_calls :
                              code_mention_calls[k] = CurrentMention}) = 1
           /\ logger.current_mention_log # <<>>
           /\ \A i, j \in DOMAIN logger.current_mention_log[1].steps :
                  LET steps == logger.current_mention_log[1].steps
                  IN  (steps[i].step_type \in StageTypes
                       /\ steps[i].step_type = steps[j].step_type) => i = j

\* C17: a failure of the initial search, the reasoning step, the 'Maps to'
\* query or the final retrieval (a selected id without a concept row
\* included) ends code_mention and extract_and_code_mentions with the error:
\* nothing runs after the raise, no step is retried, the mention gets no
\* FullCodedConcept and no result list is returned.
C17_FailureIsFatal ==
    /\ [](pc = "raised" => RaisedState)
    /\ [][pc = "raised" => (pc' = "raised" /\ coded_concepts' = coded_concepts
                            /\ logger' = logger)]_vars
    /\ [][(pc = "finalize"
           /\ SqlNumber(standardized[1].agent_picked_concept_id) \notin concept_table)
          => (pc' = "raised" /\ coded_concepts' = coded_concepts)]_vars

\* The second mention fails in the final retrieval, its selected id having no
\* concept row, after the first mention was coded.
C17_Witness ==
    /\ pc = "raised"
    /\ Len(coded_concepts) = 1
    /\ Len(code_mention_calls) = 2
    /\ standardized # <<>>
    /\ SqlNumber(standardized[1].agent_picked_concept_id) \notin concept_table
    /\ "final_retrieval" \in logger.step_start_times

====
